---- MODULE Spec2Model ----
(***************************************************************************)
(* Query routing, handler pipelines, oracle client and response fusion of *)
(* the multi-agent analytics / SEO service.                               *)
(*                                                                         *)
(* Python strings are TLA+ strings; indices follow Python (0-based,       *)
(* half-open slices).  Python's None is the value NONE where the field is *)
(* a string, and a record with is_none = TRUE where it is structured.     *)
(***************************************************************************)
EXTENDS Integers, Sequences, FiniteSets, TLC

----------------------------------------------------------------------------
(* Python string primitives                                                *)

NONE == "<None>"

UpperChars == "ABCDEFGHIJKLMNOPQRSTUVWXYZ"
LowerChars == "abcdefghijklmnopqrstuvwxyz"

\* s[a:b] for 0 <= a, b <= len(s)
Slice(s, a, b) == SubSeq(s, a + 1, b)

CharAt(s, i) == SubSeq(s, i + 1, i + 1)

LowerChar(c) ==
    IF \E i \in 1..26 : SubSeq(UpperChars, i, i) = c
    THEN LET i == CHOOSE j \in 1..26 : SubSeq(UpperChars, j, j) = c
         IN  SubSeq(LowerChars, i, i)
    ELSE c

RECURSIVE LowerFrom(_, _)
LowerFrom(s, i) ==
    IF i >= Len(s) THEN "" ELSE LowerChar(CharAt(s, i)) \o LowerFrom(s, i + 1)

\* str.lower()
Lower(s) == LowerFrom(s, 0)

\* `sub in s`
Contains(s, sub) ==
    \E i \in 0..(Len(s) - Len(sub)) : Slice(s, i, i + Len(sub)) = sub

\* s.find(sub): lowest index, -1 when absent
Find(s, sub) ==
    IF Contains(s, sub)
    THEN CHOOSE i \in 0..(Len(s) - Len(sub)) :
            /\ Slice(s, i, i + Len(sub)) = sub
            /\ \A j \in 0..(i - 1) : Slice(s, j, j + Len(sub)) # sub
    ELSE -1

\* s.rfind(sub): highest index, -1 when absent
RFind(s, sub) ==
    IF Contains(s, sub)
    THEN CHOOSE i \in 0..(Len(s) - Len(sub)) :
            /\ Slice(s, i, i + Len(sub)) = sub
            /\ \A j \in (i + 1)..(Len(s) - Len(sub)) : Slice(s, j, j + Len(sub)) # sub
    ELSE -1

\* bool(x) for an Optional[str]
Truthy(x) == x # NONE /\ x # ""

\* "; ".join(errs)
RECURSIVE Join(_)
Join(errs) ==
    IF Len(errs) = 0 THEN ""
    ELSE IF Len(errs) = 1 THEN errs[1]
    ELSE errs[1] \o "; " \o Join(Tail(errs))

----------------------------------------------------------------------------
(* json.loads on the text spans the oracle can produce.  A span outside   *)
(* the table is not valid JSON (json.JSONDecodeError).                     *)

JsonIntentAn   == "{\"requires_analytics\": true, \"requires_seo\": false}"
JsonIntentSeo  == "{\"requires_seo\": true}"
JsonIntentBoth == "{\"requires_analytics\": true, \"requires_seo\": true, \"is_cross_agent\": true}"
JsonIntentNone == "{\"requires_analytics\": false, \"requires_seo\": false}"
JsonEmptyObj   == "{}"

PlanAnMapped  == "{\"metrics\": [\"page views\", \"bogus\", \"user\"], \"dimensions\": [\"day\"]}"
PlanAnNull    == "{\"metrics\": null}"
PlanAnBadDate == "{\"metrics\": [\"sessions\"], \"date_range\": {\"type\": \"absolute\"}}"

PlanSeoGroup  == "{\"group_by\": \"indexability\", \"aggregation\": \"count\", \"limit\": 1}"
PlanSeoFilter == "{\"filters\": [{\"column\": \"url\", \"operator\": \"not_contains\", \"value\": \"https\"}], \"return_json\": true}"
PlanSeoBadNum == "{\"filters\": [{\"column\": \"word count\", \"operator\": \"greater\", \"value\": \"many\"}]}"

\* A key whose JSON value is null is listed in the object's "nulls" field
\* instead of carrying a value.
IsNull(obj, key) == "nulls" \in DOMAIN obj /\ key \in obj.nulls

JsonTable ==
    ( PlanAnMapped   :> [metrics |-> <<"page views", "bogus", "user">>,
                         dimensions |-> <<"day">>] ) @@
    ( PlanAnNull     :> [nulls |-> {"metrics"}] ) @@
    ( PlanAnBadDate  :> [metrics |-> <<"sessions">>,
                         date_range |-> [type |-> "absolute"]] ) @@
    ( PlanSeoGroup   :> [group_by |-> "indexability", aggregation |-> "count",
                         limit |-> 1] ) @@
    ( PlanSeoFilter  :> [filters |-> << [column |-> "url", operator |-> "not_contains",
                                         value |-> "https"] >>,
                         return_json |-> TRUE] ) @@
    ( PlanSeoBadNum  :> [filters |-> << [column |-> "word count", operator |-> "greater",
                                         value |-> "many"] >>] ) @@
    ( JsonIntentAn   :> [requires_analytics |-> TRUE, requires_seo |-> FALSE] ) @@
    ( JsonIntentSeo  :> [requires_seo |-> TRUE] ) @@
    ( JsonIntentBoth :> [requires_analytics |-> TRUE, requires_seo |-> TRUE,
                         is_cross_agent |-> TRUE] ) @@
    ( JsonIntentNone :> [requires_analytics |-> FALSE, requires_seo |-> FALSE] ) @@
    ( JsonEmptyObj   :> <<>> )

JsonValid(span) == span \in DOMAIN JsonTable

JsonLoads(span) == JsonTable[span]

\* dict.get(key, default)
Get(obj, key, default) == IF key \in DOMAIN obj THEN obj[key] ELSE default

\* The shared extraction idiom: first "{" to last "}", then json.loads.
\* ok = FALSE covers both "no span" and JSONDecodeError.
ExtractJson(response) ==
    LET json_start == Find(response, "{")
        json_end   == RFind(response, "}") + 1
    IN  IF json_start >= 0 /\ json_end > json_start
           /\ JsonValid(Slice(response, json_start, json_end))
        THEN [ok |-> TRUE, data |-> JsonLoads(Slice(response, json_start, json_end))]
        ELSE [ok |-> FALSE]

----------------------------------------------------------------------------
(* Orchestrator._detect_intent, after the oracle call has returned         *)

analytics_keywords ==
    <<"page view", "session", "traffic", "user", "ga4", "analytics", "daily", "trend">>
seo_keywords ==
    <<"url", "title tag", "meta", "https", "indexab", "seo", "screaming frog">>

\* any(kw in text for kw in kws)
AnyKeyword(text, kws) == \E i \in 1..Len(kws) : Contains(text, kws[i])

\* variant: no "default to analytics" when nothing matches
KeywordIntentNoDefault(query) ==
    LET query_lower   == Lower(query)
        has_analytics == AnyKeyword(query_lower, analytics_keywords)
        has_seo       == AnyKeyword(query_lower, seo_keywords)
    IN  [requires_analytics |-> has_analytics,
         requires_seo       |-> has_seo,
         is_cross_agent     |-> has_analytics /\ has_seo,
         reasoning          |-> "Keyword-based detection"]

\* variant: keywords matched against the query as typed
KeywordIntentNoLower(query) ==
    LET has_analytics == AnyKeyword(query, analytics_keywords)
        has_seo       == AnyKeyword(query, seo_keywords)
    IN  [requires_analytics |-> has_analytics \/ ~has_seo,
         requires_seo       |-> has_seo,
         is_cross_agent     |-> has_analytics /\ has_seo,
         reasoning          |-> "Keyword-based detection"]

\* variant: the default handler is SEO
KeywordIntentDefaultSeo(query) ==
    LET query_lower   == Lower(query)
        has_analytics == AnyKeyword(query_lower, analytics_keywords)
        has_seo       == AnyKeyword(query_lower, seo_keywords)
    IN  [requires_analytics |-> has_analytics,
         requires_seo       |-> has_seo \/ ~has_analytics,
         is_cross_agent     |-> has_analytics /\ has_seo,
         reasoning          |-> "Keyword-based detection"]

KeywordIntent(query) ==
    LET query_lower   == Lower(query)
        has_analytics == AnyKeyword(query_lower, analytics_keywords)
        has_seo       == AnyKeyword(query_lower, seo_keywords)
    IN  [requires_analytics |-> has_analytics \/ ~has_seo,
         requires_seo       |-> has_seo,
         is_cross_agent     |-> has_analytics /\ has_seo,
         reasoning          |-> "Keyword-based detection"]

ClassifierIntent(data) ==
    [requires_analytics |-> Get(data, "requires_analytics", FALSE),
     requires_seo       |-> Get(data, "requires_seo", FALSE),
     is_cross_agent     |-> Get(data, "is_cross_agent", FALSE),
     reasoning          |-> Get(data, "reasoning", "")]

DetectIntentFrom(query, response) ==
    LET j == ExtractJson(response)
    IN  IF j.ok THEN ClassifierIntent(j.data) ELSE KeywordIntent(query)

----------------------------------------------------------------------------
(* State                                                                   *)

VARIABLES
    pc,               \* position of the running call ("idle" when none)
    entry,            \* public method the caller invoked
    query,
    property_id,
    intent,           \* QueryIntent of process_query, NoIntent before detection
    responses,        \* process_query's list of AgentResponse
    df,               \* handler local: table returned by _load_data
    plan,             \* handler local: reporting_plan / analysis_plan
    payload,          \* handler local: ga4_response / result_data
    result,           \* value returned to the caller
    raised,           \* message of an exception that escaped to the caller, or NONE
    chat_pc,          \* LLMClient.chat: "off", "loop" or "ret"
    attempt,          \* loop variable of chat
    last_error,
    api_calls,        \* completions.create calls made by the running chat
    waits,            \* time.sleep arguments of the running chat, in order
    chat_out,         \* how the last chat ended: return value or exception
    data_cache,       \* SEOAgent._data_cache
    cache_timestamp,  \* SEOAgent._cache_timestamp
    now,              \* time.time()
    oracle_calls,     \* chat invocations made during the running call
    provider_calls,   \* run_report calls made during the running call
    fetch_calls,      \* spreadsheet fetches made during the running call
    trace,            \* events of the running call, in order
    last_fetch,       \* time of the last successful spreadsheet fetch
    prev_fetch,       \* last_fetch as it was when the running load began
    fault,            \* last exception raised inside a handler stage
    set_order,        \* iteration order of the allowlist sets in this process
    loop              \* the event loop: who runs, and the /query requests in flight

reqVars  == <<pc, entry, query, property_id, intent, responses, df, plan, payload, result, raised>>
chatVars == <<chat_pc, attempt, last_error, api_calls, waits, chat_out>>
seoVars  == <<data_cache, cache_timestamp>>
histVars == <<oracle_calls, provider_calls, fetch_calls, trace, last_fetch, prev_fetch, fault>>
procVars == <<set_order, loop>>
vars     == <<reqVars, chatVars, seoVars, now, histVars, procVars>>

----------------------------------------------------------------------------
(* LLMClient.chat: the retry loop around client.chat.completions.create    *)

max_retries == 5
base_delay  == 1

NoStatus == 0     \* getattr(e, 'status_code', None) is None

\* What one completions.create call can raise, by exception class (the most
\* specific class the except chain of chat tests) and HTTP status.
ApiFailures ==
    { [cls |-> "RateLimitError",     status_code |-> 429],
      [cls |-> "APIConnectionError", status_code |-> NoStatus],
      [cls |-> "APITimeoutError",    status_code |-> NoStatus],
      [cls |-> "APIError",           status_code |-> 429],
      [cls |-> "APIError",           status_code |-> 503],
      [cls |-> "APIError",           status_code |-> 400],
      [cls |-> "APIError",           status_code |-> NoStatus],
      [cls |-> "Exception",          status_code |-> NoStatus] }

\* str(e)
ErrMsg(e) ==
    CASE e.cls = "RateLimitError"     -> "Rate limit reached"
      [] e.cls = "APIConnectionError" -> "Connection error."
      [] e.cls = "APITimeoutError"    -> "Request timed out."
      [] e.cls = "APIError" /\ e.status_code = 429 -> "Error code: 429"
      [] e.cls = "APIError" /\ e.status_code = 503 -> "Error code: 503"
      [] e.cls = "APIError" /\ e.status_code = 400 -> "Error code: 400"
      [] e.cls = "APIError" /\ e.status_code = NoStatus -> "API error"
      [] OTHER -> ""

\* variant: server errors are re-raised like client errors
RetryableNoServer(e) ==
    \/ e.cls = "RateLimitError"
    \/ e.cls = "APIConnectionError"
    \/ e.cls = "APITimeoutError"
    \/ e.cls = "APIError" /\ e.status_code = 429

\* variant: every error that carries a status is retried
RetryableAnyStatus(e) ==
    \/ e.cls = "RateLimitError"
    \/ e.cls = "APIConnectionError"
    \/ e.cls = "APITimeoutError"
    \/ e.cls = "APIError" /\ e.status_code # NoStatus

\* The except chain of chat: which failures lead to sleep-and-retry.
Retryable(e) ==
    \/ e.cls = "RateLimitError"
    \/ e.cls = "APIConnectionError"
    \/ e.cls = "APITimeoutError"
    \/ /\ e.cls = "APIError"
       /\ \/ e.status_code = 429
          \/ (e.status_code # NoStatus /\ e.status_code >= 500)

RECURSIVE Pow2(_)
Pow2(n) == IF n = 0 THEN 1 ELSE 2 * Pow2(n - 1)

\* variant: the delay grows by base_delay per attempt
WaitTimeLinear(k) == base_delay * (k + 1)

WaitTime(k) == base_delay * Pow2(k)

ExhaustedMsg(last) == "Failed after 5 retries. Last error: " \o last

NoOut == [kind |-> "none"]

\* Texts the oracle may answer with at the position of the caller.
IntentTexts ==
    { JsonIntentAn,
      "Sure: " \o JsonIntentSeo \o " ok",
      JsonIntentBoth,
      JsonIntentNone,
      JsonEmptyObj,
      "I cannot answer",
      "{not json}",
      "} {" }

SummaryTexts == { "Here is what the data shows." }

\* structured_chat(...) -> chat(...): entering the loop
StartChat ==
    /\ chat_pc' = "loop"
    /\ attempt' = 0
    /\ last_error' = NONE
    /\ api_calls' = 0
    /\ waits' = <<>>
    /\ chat_out' = NoOut
    /\ oracle_calls' = oracle_calls + 1

\* the caller has taken chat's outcome; the call's locals are gone
EndChat ==
    /\ chat_pc' = "off"
    /\ attempt' = 0
    /\ last_error' = NONE
    /\ api_calls' = 0
    /\ waits' = <<>>
    /\ chat_out' = NoOut
    /\ UNCHANGED oracle_calls

ChatReturned == chat_pc = "ret" /\ chat_out.kind = "return"
ChatRaised   == chat_pc = "ret" /\ chat_out.kind = "raise"

----------------------------------------------------------------------------
(* AnalyticsAgent: allowlists and _validate_plan                           *)

\* The allowlists are Python sets: listed here in source order, iterated
\* in an order the interpreter's string hashing fixes per process.
VALID_METRICS ==
    <<"activeUsers", "newUsers", "totalUsers", "sessions", "sessionsPerUser",
      "screenPageViews", "screenPageViewsPerSession", "screenPageViewsPerUser",
      "engagedSessions", "engagementRate", "averageSessionDuration",
      "bounceRate", "eventCount", "eventsPerSession", "conversions",
      "totalRevenue", "purchaseRevenue", "userEngagementDuration",
      "dauPerMau", "dauPerWau", "wauPerMau">>

VALID_DIMENSIONS ==
    <<"date", "dateHour", "dateHourMinute", "dayOfWeek", "dayOfWeekName",
      "month", "year", "week", "hour", "minute",
      "country", "city", "region", "continent", "subContinent",
      "language", "browser", "operatingSystem", "deviceCategory",
      "platform", "mobileDeviceBranding", "mobileDeviceModel",
      "pagePath", "pageTitle", "pageLocation", "landingPage",
      "sessionSource", "sessionMedium", "sessionCampaignName",
      "sessionDefaultChannelGroup", "firstUserSource", "firstUserMedium",
      "eventName", "hostName">>

METRIC_MAPPINGS ==
    ( "page views" :> "screenPageViews" ) @@
    ( "pageviews" :> "screenPageViews" ) @@
    ( "views" :> "screenPageViews" ) @@
    ( "users" :> "totalUsers" ) @@
    ( "active users" :> "activeUsers" ) @@
    ( "new users" :> "newUsers" ) @@
    ( "sessions" :> "sessions" ) @@
    ( "bounce rate" :> "bounceRate" ) @@
    ( "engagement rate" :> "engagementRate" ) @@
    ( "session duration" :> "averageSessionDuration" ) @@
    ( "avg session duration" :> "averageSessionDuration" ) @@
    ( "events" :> "eventCount" ) @@
    ( "conversions" :> "conversions" ) @@
    ( "revenue" :> "totalRevenue" )

DIMENSION_MAPPINGS ==
    ( "date" :> "date" ) @@
    ( "day" :> "date" ) @@
    ( "page" :> "pagePath" ) @@
    ( "page path" :> "pagePath" ) @@
    ( "path" :> "pagePath" ) @@
    ( "country" :> "country" ) @@
    ( "city" :> "city" ) @@
    ( "device" :> "deviceCategory" ) @@
    ( "browser" :> "browser" ) @@
    ( "source" :> "sessionSource" ) @@
    ( "medium" :> "sessionMedium" ) @@
    ( "channel" :> "sessionDefaultChannelGroup" ) @@
    ( "traffic source" :> "sessionDefaultChannelGroup" ) @@
    ( "landing page" :> "landingPage" ) @@
    ( "event" :> "eventName" ) @@
    ( "event name" :> "eventName" )

Range(seq) == { seq[i] : i \in 1..Len(seq) }

RECURSIVE Reverse(_)
Reverse(seq) == IF seq = <<>> THEN <<>> ELSE Append(Reverse(Tail(seq)), Head(seq))

\* Iteration orders of a set object that the model distinguishes.
SetOrders == {"source", "reversed"}

IterOrder(list, order) == IF order = "source" THEN list ELSE Reverse(list)

\* first element of `list` (in iteration order) that matches in either
\* direction, NONE when the loop falls through
RECURSIVE FindClosest(_, _)
FindClosest(name_lower, list) ==
    IF list = <<>> THEN NONE
    ELSE LET valid == Head(list)
         IN  IF Contains(Lower(valid), name_lower) \/ Contains(name_lower, Lower(valid))
             THEN valid
             ELSE FindClosest(name_lower, Tail(list))

_find_closest_metric(metric, order) ==
    FindClosest(Lower(metric), IterOrder(VALID_METRICS, order))

_find_closest_dimension(dimension, order) ==
    FindClosest(Lower(dimension), IterOrder(VALID_DIMENSIONS, order))

\* variant: the exact allowlist test is missing, canonical names go to the
\* fuzzy match
ResolveMetricNoExact(metric, order) ==
    IF Lower(metric) \in DOMAIN METRIC_MAPPINGS THEN METRIC_MAPPINGS[Lower(metric)]
    ELSE _find_closest_metric(metric, order)

\* variant: a name no tier resolves is kept as requested
ResolveMetricPassThrough(metric, order) ==
    IF Lower(metric) \in DOMAIN METRIC_MAPPINGS THEN METRIC_MAPPINGS[Lower(metric)]
    ELSE IF metric \in Range(VALID_METRICS) THEN metric
    ELSE IF _find_closest_metric(metric, order) # NONE
         THEN _find_closest_metric(metric, order)
         ELSE metric

\* the three-tier resolution of one requested name
ResolveMetric(metric, order) ==
    IF Lower(metric) \in DOMAIN METRIC_MAPPINGS THEN METRIC_MAPPINGS[Lower(metric)]
    ELSE IF metric \in Range(VALID_METRICS) THEN metric
    ELSE _find_closest_metric(metric, order)

\* variant: the exact allowlist test is missing
ResolveDimensionNoExact(dimension, order) ==
    IF Lower(dimension) \in DOMAIN DIMENSION_MAPPINGS THEN DIMENSION_MAPPINGS[Lower(dimension)]
    ELSE _find_closest_dimension(dimension, order)

ResolveDimension(dimension, order) ==
    IF Lower(dimension) \in DOMAIN DIMENSION_MAPPINGS THEN DIMENSION_MAPPINGS[Lower(dimension)]
    ELSE IF dimension \in Range(VALID_DIMENSIONS) THEN dimension
    ELSE _find_closest_dimension(dimension, order)

\* the "if api and api not in validated: append" loops
RECURSIVE ValidateMetrics(_, _, _)
ValidateMetrics(requested, acc, order) ==
    IF requested = <<>> THEN acc
    ELSE LET api_metric == ResolveMetric(Head(requested), order)
         IN  ValidateMetrics(Tail(requested),
                IF Truthy(api_metric) /\ api_metric \notin Range(acc)
                THEN Append(acc, api_metric) ELSE acc,
                order)

RECURSIVE ValidateDimensions(_, _, _)
ValidateDimensions(requested, acc, order) ==
    IF requested = <<>> THEN acc
    ELSE LET api_dim == ResolveDimension(Head(requested), order)
         IN  ValidateDimensions(Tail(requested),
                IF Truthy(api_dim) /\ api_dim \notin Range(acc)
                THEN Append(acc, api_dim) ELSE acc,
                order)

\* variant: filters resolve like dimensions, fuzzy match included
FilterKeptFuzzy(filter_item) ==
    LET dim == Get(filter_item, "dimension", "")
    IN  \/ dim \in Range(VALID_DIMENSIONS)
        \/ Lower(dim) \in DOMAIN DIMENSION_MAPPINGS
        \/ \E i \in 1..Len(VALID_DIMENSIONS) :
              \/ Contains(Lower(VALID_DIMENSIONS[i]), Lower(dim))
              \/ Contains(Lower(dim), Lower(VALID_DIMENSIONS[i]))

FilterKept(filter_item) ==
    LET dim == Get(filter_item, "dimension", "")
    IN  dim \in Range(VALID_DIMENSIONS) \/ Lower(dim) \in DOMAIN DIMENSION_MAPPINGS

DefaultDateRange == [type |-> "relative", days |-> 7]
NoOrderBy == NONE

\* _validate_plan raises (TypeError) when it iterates a null list
ValidateRaises(p) ==
    \/ IsNull(p, "metrics")
    \/ IsNull(p, "dimensions")
    \/ IsNull(p, "filters")

\* variant: an empty metrics list is returned as it is
_validate_planNoDefault(p, order) ==
    [metrics    |-> ValidateMetrics(Get(p, "metrics", <<>>), <<>>, order),
     dimensions |-> ValidateDimensions(Get(p, "dimensions", <<>>), <<>>, order),
     date_range |-> Get(p, "date_range", DefaultDateRange),
     filters    |-> SelectSeq(Get(p, "filters", <<>>), FilterKept),
     order_by   |-> Get(p, "order_by", NoOrderBy)]

_validate_plan(p, order) ==
    LET metrics == ValidateMetrics(Get(p, "metrics", <<>>), <<>>, order)
    IN  [metrics    |-> IF metrics = <<>> THEN <<"screenPageViews">> ELSE metrics,
         dimensions |-> ValidateDimensions(Get(p, "dimensions", <<>>), <<>>, order),
         date_range |-> Get(p, "date_range", DefaultDateRange),
         filters    |-> SelectSeq(Get(p, "filters", <<>>), FilterKept),
         order_by   |-> Get(p, "order_by", NoOrderBy)]

----------------------------------------------------------------------------
(* Results and the handler boundary                                        *)

NoData   == [is_none |-> TRUE]
NoResult == [is_none |-> TRUE]
NoIntent == [is_none |-> TRUE]
NoPlan   == [is_none |-> TRUE]
NoTable  == [is_none |-> TRUE]
NoFault  == [stage |-> "none", msg |-> NONE]

\* AgentResponse(success=False, data=None, message="", agent_name=..., error=...)
FailResponse(agent, msg) ==
    [success |-> FALSE, data |-> NoData, message |-> "", agent_name |-> agent,
     error |-> msg]

OkResponse(agent, data, message) ==
    [success |-> TRUE, data |-> data, message |-> message, agent_name |-> agent,
     error |-> NONE]

\* process_query's except branch
ErrorDict(msg) == [success |-> FALSE, error |-> msg]

\* variant: _parse_query is called before the try block is entered
CaughtExceptParse(agent, stage) == stage # "parse"

\* Stages of a handler's process that lie inside its try block.
Caught(agent, stage) == TRUE

\* the handler returns r: to process_query (which appends it) or to the caller
Deliver(agent, r, nextpc) ==
    /\ IF entry = "process_query"
       THEN /\ responses' = Append(responses, r)
            /\ pc' = nextpc
            /\ result' = result
       ELSE /\ responses' = responses
            /\ pc' = "done"
            /\ result' = r
    /\ raised' = raised
    /\ trace' = Append(trace, agent \o ".end")

\* an exception leaves the handler: process_query's except turns it into a
\* result, any other caller sees it raised
Throw(agent, msg) ==
    /\ IF entry = "process_query"
       THEN result' = ErrorDict(msg) /\ raised' = raised
       ELSE result' = result /\ raised' = msg
    /\ pc' = "done"
    /\ responses' = responses
    /\ trace' = Append(trace, agent \o ".raise")

\* an exception with message msg is raised in `stage` of agent's process
StageFails(agent, stage, msg, nextpc) ==
    /\ fault' = [stage |-> stage, msg |-> msg]
    /\ IF Caught(agent, stage)
       THEN Deliver(agent, FailResponse(agent, msg), nextpc)
       ELSE Throw(agent, msg)

----------------------------------------------------------------------------
(* AnalyticsAgent.process                                                  *)

AnalyticsPlanTexts ==
    { PlanAnMapped, PlanAnNull, PlanAnBadDate, "I cannot answer", "{not json}" }

AnalyticsDefaultPlan ==
    [metrics    |-> <<"screenPageViews", "totalUsers", "sessions">>,
     dimensions |-> <<"date">>,
     date_range |-> [type |-> "relative", days |-> 7],
     filters    |-> <<>>,
     order_by   |-> NoOrderBy]

\* variant: the fallback returns an empty plan
AnalyticsParseEmptyFallback(response) ==
    LET j == ExtractJson(response)
    IN  IF j.ok THEN j.data ELSE [filters |-> <<>>]

\* AnalyticsAgent._parse_query, after the oracle call has returned
AnalyticsParse(response) ==
    LET j == ExtractJson(response)
    IN  IF j.ok THEN j.data ELSE AnalyticsDefaultPlan

\* _execute_query up to the provider call: the date range must resolve
DateRangeRaises(p) ==
    LET date_range_config == Get(p, "date_range", <<>>)
    IN  /\ Get(date_range_config, "type", NONE) # "relative"
        /\ ~ ( "start" \in DOMAIN date_range_config
               /\ "end" \in DOMAIN date_range_config )

\* What _get_client / run_report can do
ProviderOutcomes ==
    { [kind |-> "ok", row_count |-> 2],
      [kind |-> "raise", msg |-> "GA4 request failed"],
      [kind |-> "raise", msg |-> ""] }

Ga4Response(p, out) ==
    [row_count |-> out.row_count,
     metadata  |-> [metrics |-> p.metrics, dimensions |-> p.dimensions]]

PropertyIdError == "GA4 propertyId is required for analytics queries"

\* variant: `property_id is None`
MissingNoneOnly(pid) == pid = NONE

\* `not property_id`
Missing(pid) == ~Truthy(pid)

----------------------------------------------------------------------------
(* SEOAgent: the table and _execute_analysis                               *)
(* A table is [columns, rows]; a row is the sequence of its cells in       *)
(* column order; a cell is a string, or NONE where the sheet row was       *)
(* shorter than the header.                                                *)

\* characters str.strip() removes
IsSpace(c) == c \in {" ", "\t", "\n", "\r"}

RECURSIVE LStrip(_)
LStrip(s) == IF Len(s) > 0 /\ IsSpace(CharAt(s, 0)) THEN LStrip(Slice(s, 1, Len(s))) ELSE s

RECURSIVE RStrip(_)
RStrip(s) ==
    IF Len(s) > 0 /\ IsSpace(CharAt(s, Len(s) - 1)) THEN RStrip(Slice(s, 0, Len(s) - 1)) ELSE s

\* str.strip()
Strip(s) == RStrip(LStrip(s))

\* astype(str) on an object column: None becomes the text "None"
AsStr(cell) == IF cell = NONE THEN "None" ELSE cell

\* one pattern character against one subject character under re.IGNORECASE:
\* "." matches any character but a newline, any other character of the
\* bounded patterns is a literal
MatchChar(p, c) == IF p = "." THEN c # "\n" ELSE LowerChar(p) = LowerChar(c)

\* Series.str.contains(pat, case=False, na=False) on one text: regex is
\* True by default, so this is re.search(pat, s, re.IGNORECASE)
StrContains(s, pat) ==
    \E i \in 0..(Len(s) - Len(pat)) :
        \A j \in 0..(Len(pat) - 1) : MatchChar(CharAt(pat, j), CharAt(s, i + j))

Digits == "0123456789"

IsDigit(c) == \E i \in 1..10 : SubSeq(Digits, i, i) = c

DigitVal(c) == (CHOOSE i \in 1..10 : SubSeq(Digits, i, i) = c) - 1

\* the text parses as a number (float(), pd.to_numeric): decimal digits only
IsNumeric(s) == s # NONE /\ Len(s) > 0 /\ \A i \in 0..(Len(s) - 1) : IsDigit(CharAt(s, i))

RECURSIVE NumVal(_)
NumVal(s) ==
    IF Len(s) = 0 THEN 0
    ELSE 10 * NumVal(Slice(s, 0, Len(s) - 1)) + DigitVal(CharAt(s, Len(s) - 1))

\* index of the first element of seq satisfying Test, 0 when none does
FirstIndex(seq, Test(_)) ==
    IF \E i \in 1..Len(seq) : Test(seq[i])
    THEN CHOOSE i \in 1..Len(seq) : Test(seq[i]) /\ \A j \in 1..(i - 1) : ~Test(seq[j])
    ELSE 0

\* the "Common mappings" dict of _find_column, in insertion order
ColumnMappings ==
    << [key |-> "url",              alternatives |-> <<"address", "url">>],
       [key |-> "title",            alternatives |-> <<"title 1", "title", "title tag">>],
       [key |-> "meta description", alternatives |-> <<"meta description 1", "meta description">>],
       [key |-> "status",           alternatives |-> <<"status code">>],
       [key |-> "indexability",     alternatives |-> <<"indexability", "indexable">>],
       [key |-> "content",          alternatives |-> <<"content type">>],
       [key |-> "word count",       alternatives |-> <<"word count">>],
       [key |-> "h1",               alternatives |-> <<"h1-1", "h1">>] >>

\* third tier of _find_column: first (key, alt, col) in loop order
RECURSIVE MappedColumn(_, _, _)
MappedColumn(columns, search_lower, pairs) ==
    IF pairs = <<>> THEN NONE
    ELSE LET alt == Head(pairs)
             HasAlt(col) == Contains(Lower(col), alt)
             i == FirstIndex(columns, HasAlt)
         IN  IF i > 0 THEN columns[i] ELSE MappedColumn(columns, search_lower, Tail(pairs))

RECURSIVE MatchingAlternatives(_, _)
MatchingAlternatives(search_lower, mappings) ==
    IF mappings = <<>> THEN <<>>
    ELSE LET m == Head(mappings)
         IN  (IF Contains(m.key, search_lower) \/ Contains(search_lower, m.key)
              THEN m.alternatives ELSE <<>>)
             \o MatchingAlternatives(search_lower, Tail(mappings))

_find_column(columns, search) ==
    IF search = NONE \/ search = "" THEN NONE
    ELSE LET search_lower == Strip(Lower(search))
             Exact(col)   == Lower(col) = search_lower
             Partial(col) == Contains(Lower(col), search_lower)
                                \/ Contains(search_lower, Lower(col))
             e == FirstIndex(columns, Exact)
             q == FirstIndex(columns, Partial)
         IN  IF e > 0 THEN columns[e]
             ELSE IF q > 0 THEN columns[q]
             ELSE MappedColumn(columns, search_lower,
                               MatchingAlternatives(search_lower, ColumnMappings))

ColumnIndex(columns, col) == CHOOSE i \in 1..Len(columns) : columns[i] = col

\* one filter clause on one cell; rawcol is the clause's own column text
\* variant: not_empty tests the text only, without notna()
KeepCellNoNaTest(cell, operator, value, rawcol) ==
    CASE operator = "equals"       -> cell = value
      [] operator = "not_equals"   -> cell # value
      [] operator = "contains"     -> StrContains(AsStr(cell), value)
      [] operator = "not_contains" -> ~StrContains(AsStr(cell), value)
      [] operator = "greater"      ->
            IF Contains(Lower(rawcol), "length")
            THEN Len(AsStr(cell)) > NumVal(value)
            ELSE IsNumeric(cell) /\ NumVal(cell) > NumVal(value)
      [] operator = "less"         ->
            IF Contains(Lower(rawcol), "length")
            THEN Len(AsStr(cell)) < NumVal(value)
            ELSE IsNumeric(cell) /\ NumVal(cell) < NumVal(value)
      [] operator = "is_empty"     -> cell = NONE \/ Strip(AsStr(cell)) = ""
      [] operator = "not_empty"    -> Strip(AsStr(cell)) # ""
      [] OTHER                     -> TRUE

KeepCell(cell, operator, value, rawcol) ==
    CASE operator = "equals"       -> cell = value
      [] operator = "not_equals"   -> cell # value
      [] operator = "contains"     -> StrContains(AsStr(cell), value)
      [] operator = "not_contains" -> ~StrContains(AsStr(cell), value)
      [] operator = "greater"      ->
            IF Contains(Lower(rawcol), "length")
            THEN Len(AsStr(cell)) > NumVal(value)
            ELSE IsNumeric(cell) /\ NumVal(cell) > NumVal(value)
      [] operator = "less"         ->
            IF Contains(Lower(rawcol), "length")
            THEN Len(AsStr(cell)) < NumVal(value)
            ELSE IsNumeric(cell) /\ NumVal(cell) < NumVal(value)
      [] operator = "is_empty"     -> cell = NONE \/ Strip(AsStr(cell)) = ""
      [] operator = "not_empty"    -> cell # NONE /\ Strip(AsStr(cell)) # ""
      [] OTHER                     -> TRUE

\* variant: the loop ends at the first clause whose column does not resolve
RECURSIVE ApplyFiltersStopAtUnresolved(_, _, _)
ApplyFiltersStopAtUnresolved(columns, rows, filters) ==
    IF filters = <<>> THEN rows
    ELSE LET filter_item == Head(filters)
             rawcol   == Get(filter_item, "column", "")
             column   == _find_column(columns, rawcol)
             operator == Get(filter_item, "operator", "equals")
             value    == Get(filter_item, "value", "")
             Keep(row) == KeepCell(row[ColumnIndex(columns, column)], operator, value, rawcol)
         IN  IF column = NONE THEN rows
             ELSE ApplyFiltersStopAtUnresolved(columns, SelectSeq(rows, Keep), Tail(filters))

\* the filter loop: clauses whose column does not resolve are skipped
RECURSIVE ApplyFilters(_, _, _)
ApplyFilters(columns, rows, filters) ==
    IF filters = <<>> THEN rows
    ELSE LET filter_item == Head(filters)
             rawcol   == Get(filter_item, "column", "")
             column   == _find_column(columns, rawcol)
             operator == Get(filter_item, "operator", "equals")
             value    == Get(filter_item, "value", "")
             Keep(row) == KeepCell(row[ColumnIndex(columns, column)], operator, value, rawcol)
         IN  ApplyFilters(columns,
                          IF column = NONE THEN rows ELSE SelectSeq(rows, Keep),
                          Tail(filters))

\* float(value) raises ValueError in a greater / less clause that is applied
ClauseRaises(columns, filter_item) ==
    /\ _find_column(columns, Get(filter_item, "column", "")) # NONE
    /\ Get(filter_item, "operator", "equals") \in {"greater", "less"}
    /\ ~IsNumeric(Get(filter_item, "value", ""))

ExecRaises(table, p) ==
    LET filters == Get(p, "filters", <<>>)
    IN  \/ IsNull(p, "filters")
        \/ \E i \in 1..Len(filters) : ClauseRaises(table.columns, filters[i])

ExecMsg(table, p) ==
    IF IsNull(p, "filters")
    THEN "'NoneType' object is not iterable"
    ELSE "could not convert string to float"

\* group keys of groupby(group_col): the distinct non-null cells, each
\* listed once
RECURSIVE GroupKeys(_, _)
GroupKeys(cells, acc) ==
    IF cells = <<>> THEN acc
    ELSE GroupKeys(Tail(cells),
                   IF Head(cells) = NONE \/ Head(cells) \in Range(acc)
                   THEN acc ELSE Append(acc, Head(cells)))

ColumnCells(columns, rows, col) ==
    [i \in 1..Len(rows) |-> rows[i][ColumnIndex(columns, col)]]

CountOf(cells, key) == Cardinality({ i \in 1..Len(cells) : cells[i] = key })

\* groupby(group_col).size().reset_index(name="count").to_dict("records")
GroupedCount(columns, rows, group_col) ==
    LET cells == ColumnCells(columns, rows, group_col)
        keys  == GroupKeys(cells, <<>>)
    IN  [i \in 1..Len(keys) |-> [key |-> keys[i], count |-> CountOf(cells, keys[i])]]

\* groupby(group_col).sum(numeric_only=True).reset_index().to_dict("records"):
\* every sheet column holds text, so only the key column is left
GroupedSum(columns, rows, group_col) ==
    LET keys == GroupKeys(ColumnCells(columns, rows, group_col), <<>>)
    IN  [i \in 1..Len(keys) |-> [key |-> keys[i]]]

\* the resolved, non-None entries of select_columns
RECURSIVE ValidCols(_, _)
ValidCols(columns, select_cols) ==
    IF select_cols = <<>> THEN <<>>
    ELSE LET c == _find_column(columns, Head(select_cols))
         IN  (IF c = NONE THEN <<>> ELSE <<c>>) \o ValidCols(columns, Tail(select_cols))

\* DataFrame.head(n)
HeadRows(rows, n) ==
    IF n >= 0 THEN SubSeq(rows, 1, IF n < Len(rows) THEN n ELSE Len(rows))
    ELSE SubSeq(rows, 1, Len(rows) + n)

\* to_dict(orient="records") of the rows restricted to the columns `out`
Records(columns, rows, out) ==
    [i \in 1..Len(rows) |->
        [c \in Range(out) |-> rows[i][ColumnIndex(columns, c)]]]

\* Does the plan take the early-return grouped branch?
TakesGroupedBranch(table, p) ==
    /\ Truthy(Get(p, "group_by", NONE))
    /\ Truthy(_find_column(table.columns, Get(p, "group_by", NONE)))
    /\ Get(p, "aggregation", NONE) \in {"count", "sum"}

\* SEOAgent._execute_analysis(df, plan), for plans on which it does not raise
_execute_analysis(table, p) ==
    LET columns  == table.columns
        filtered == ApplyFilters(columns, table.rows, Get(p, "filters", <<>>))
    IN  IF TakesGroupedBranch(table, p)
        THEN LET group_col == _find_column(columns, p.group_by)
                 grouped   == IF p.aggregation = "count"
                              THEN GroupedCount(columns, filtered, group_col)
                              ELSE GroupedSum(columns, filtered, group_col)
             IN  [type |-> "grouped", data |-> grouped, total_groups |-> Len(grouped)]
        ELSE LET valid_cols == ValidCols(columns, Get(p, "select_columns", <<>>))
                 out        == IF valid_cols # <<>> THEN valid_cols ELSE columns
                 limited    == HeadRows(filtered, Get(p, "limit", 100))
             IN  [type |-> "list",
                  data |-> Records(columns, limited, out),
                  total_matching |-> Len(limited),
                  columns |-> out]

SeoDefaultPlan ==
    [operation |-> "list", filters |-> <<>>, group_by |-> NONE, aggregation |-> NONE,
     select_columns |-> <<>>, limit |-> 100, return_json |-> FALSE]

\* SEOAgent._parse_query, after the oracle call has returned
SeoParse(response) ==
    LET j == ExtractJson(response)
    IN  IF j.ok THEN j.data ELSE SeoDefaultPlan

SeoPlanTexts ==
    { PlanSeoGroup, PlanSeoFilter, PlanSeoBadNum, "I cannot answer", "{not json}" }

LoadError == "Failed to load SEO data from spreadsheet"

_cache_ttl == 300
NoTime == -1      \* _cache_timestamp is None

\* What the sheet can hold when a fetch succeeds
SheetColumns == <<"Address", "Indexability", "Word Count">>

SheetA ==
    [columns |-> SheetColumns,
     rows    |-> << <<"https://a.io/", "Indexable", "120">>,
                    <<"http://a.io/old", "Non-Indexable", NONE>>,
                    <<"https://a.io/b", "", "7">> >>]

SheetHeaderOnly == [columns |-> SheetColumns, rows |-> <<>>]

\* Outcomes of one spreadsheet fetch
FetchOutcomes ==
    { [kind |-> "table", table |-> SheetA],
      [kind |-> "table", table |-> SheetHeaderOnly],
      [kind |-> "no_values"],
      [kind |-> "raise"] }

\* variant: the cache is still served when exactly _cache_ttl old
CacheFreshInclusive(current_time) ==
    /\ data_cache # NoTable
    /\ cache_timestamp # NoTime /\ cache_timestamp # 0
    /\ (current_time - cache_timestamp) <= _cache_ttl

\* the cache test at the top of _load_data
CacheFresh(current_time) ==
    /\ data_cache # NoTable
    /\ cache_timestamp # NoTime /\ cache_timestamp # 0
    /\ (current_time - cache_timestamp) < _cache_ttl

\* df is None or df.empty
Unusable(table) == table = NoTable \/ table.rows = <<>>

----------------------------------------------------------------------------
(* Orchestrator._fuse_responses and _format_single_response                *)

HasError(r) == Truthy(r.error)
ErrorOf(seq) == [i \in 1..Len(seq) |-> seq[i].error]

\* errors = [r.error for r in responses if r.error]
FuseErrors(rs) == ErrorOf(SelectSeq(rs, HasError))

LastIndex(rs, Test(_)) ==
    CHOOSE i \in 1..Len(rs) : Test(rs[i]) /\ \A j \in (i + 1)..Len(rs) : ~Test(rs[j])

\* variant: every response is put in the map
PartialDataUnfiltered(rs) ==
    [n \in { rs[i].agent_name : i \in 1..Len(rs) } |->
        LET Mine(r) == r.agent_name = n
        IN  rs[LastIndex(rs, Mine)].data]

\* {r.agent_name: r.data for r in responses if r.success}
PartialData(rs) ==
    [n \in { rs[i].agent_name : i \in { j \in 1..Len(rs) : rs[j].success } } |->
        LET Mine(r) == r.success /\ r.agent_name = n
        IN  rs[LastIndex(rs, Mine)].data]

FusedFailure(rs) ==
    [success |-> FALSE, error |-> Join(FuseErrors(rs)), partial_data |-> PartialData(rs)]

\* the loop that picks analytics_data / seo_data out of the responses
DataOf(rs, name) ==
    LET Mine(r) == r.agent_name = name
    IN  IF \E i \in 1..Len(rs) : Mine(rs[i]) THEN rs[LastIndex(rs, Mine)].data ELSE NoData

FusedSuccess(rs, fused_message) ==
    [success |-> TRUE, message |-> fused_message,
     data |-> [analytics |-> DataOf(rs, "analytics"), seo |-> DataOf(rs, "seo")],
     agents |-> [i \in 1..Len(rs) |-> rs[i].agent_name],
     cross_agent |-> TRUE]

_format_single_response(r) ==
    [success |-> r.success, message |-> r.message, data |-> r.data,
     agent |-> r.agent_name, error |-> r.error]

NoAgentError == "Could not determine appropriate agent for this query"

NoAgentResult ==
    [success |-> FALSE, error |-> NoAgentError,
     message |-> "Please rephrase your question to be about web analytics (GA4) or SEO audit data."]

MissingPropertyResult(i) ==
    [success |-> FALSE, error |-> PropertyIdError,
     intent |-> [requires_analytics |-> TRUE, requires_seo |-> i.requires_seo]]

----------------------------------------------------------------------------
(* Inputs and bounds                                                       *)

Queries ==
    { "META audit",
      "Show URLs without HTTPS",
      "Daily traffic trend",
      "Hello there",
      "Users per URL" }

\* a handler hands the query text to the oracle and never looks at it
DirectQueries == { "META audit" }

PropertyIds == { NONE, "", "123456" }

StartClock == 1000
MaxClock   == 1400
TickSteps  == { 100, 200 }

ChatFrame    == UNCHANGED <<chatVars, oracle_calls>>
RequestFrame == UNCHANGED <<entry, query, property_id>>

\* Texts the oracle may answer with at the caller's position
TextsAt(p) ==
    CASE p = "detect"   -> IntentTexts
      [] p = "an_parse" -> AnalyticsPlanTexts
      [] p = "seo_parse" -> SeoPlanTexts
      [] OTHER          -> SummaryTexts

----------------------------------------------------------------------------
(* LLMClient.chat, one loop iteration per step                             *)

\* completions.create succeeds: return response.choices[0].message.content
ChatAttemptOk(text) ==
    /\ chat_pc = "loop"
    /\ attempt < max_retries
    /\ text \in TextsAt(pc)
    /\ api_calls' = api_calls + 1
    /\ chat_out' = [kind |-> "return", text |-> text]
    /\ chat_pc' = "ret"
    /\ UNCHANGED <<attempt, last_error, waits, oracle_calls>>
    /\ UNCHANGED <<reqVars, seoVars, now, provider_calls, fetch_calls, trace,
                   last_fetch, prev_fetch, fault, procVars>>

\* completions.create raises e: sleep and go round again, or re-raise; the
\* loop running out raises RuntimeError
ChatAttemptFail(e) ==
    /\ chat_pc = "loop"
    /\ attempt < max_retries
    /\ e \in ApiFailures
    /\ api_calls' = api_calls + 1
    /\ IF Retryable(e)
       THEN /\ waits' = Append(waits, WaitTime(attempt))
            /\ last_error' = ErrMsg(e)
            /\ attempt' = attempt + 1
            /\ IF attempt + 1 < max_retries
               THEN chat_pc' = "loop" /\ chat_out' = chat_out
               ELSE /\ chat_pc' = "ret"
                    /\ chat_out' = [kind |-> "raise", msg |-> ExhaustedMsg(ErrMsg(e))]
       ELSE /\ chat_pc' = "ret"
            /\ chat_out' = [kind |-> "raise", msg |-> ErrMsg(e)]
            /\ UNCHANGED <<waits, last_error, attempt>>
    /\ UNCHANGED oracle_calls
    /\ UNCHANGED <<reqVars, seoVars, now, provider_calls, fetch_calls, trace,
                   last_fetch, prev_fetch, fault, procVars>>

----------------------------------------------------------------------------
(* Entry points                                                            *)

BeginCall(e, q, pid, start) ==
    /\ pc = "idle"
    /\ entry' = e
    /\ query' = q
    /\ property_id' = pid
    /\ pc' = start
    /\ intent' = NoIntent
    /\ responses' = <<>>
    /\ df' = NoTable
    /\ plan' = NoPlan
    /\ payload' = NoData
    /\ result' = NoResult
    /\ raised' = NONE
    /\ provider_calls' = 0
    /\ fetch_calls' = 0
    /\ prev_fetch' = last_fetch
    /\ fault' = NoFault
    /\ UNCHANGED <<seoVars, now, last_fetch, procVars>>

\* Orchestrator.process_query(query, property_id): straight into _detect_intent
CallProcessQuery(q, pid) ==
    /\ BeginCall("process_query", q, pid, "detect")
    /\ oracle_calls' = 1
    /\ chat_pc' = "loop" /\ attempt' = 0 /\ last_error' = NONE
    /\ api_calls' = 0 /\ waits' = <<>> /\ chat_out' = NoOut
    /\ trace' = <<"detect.start">>

\* AnalyticsAgent.process(query, property_id=...) called on its own
CallAnalyticsProcess(q, pid) ==
    /\ BeginCall("analytics.process", q, pid, "an_start")
    /\ oracle_calls' = 0
    /\ trace' = <<"analytics.start">>
    /\ UNCHANGED chatVars

\* SEOAgent.process(query) called on its own
CallSEOProcess(q) ==
    /\ BeginCall("seo.process", q, NONE, "seo_start")
    /\ oracle_calls' = 0
    /\ trace' = <<"seo.start">>
    /\ UNCHANGED chatVars

\* llm_client.structured_chat(...) called on its own
CallChat ==
    /\ BeginCall("chat", "", NONE, "chat")
    /\ oracle_calls' = 1
    /\ chat_pc' = "loop" /\ attempt' = 0 /\ last_error' = NONE
    /\ api_calls' = 0 /\ waits' = <<>> /\ chat_out' = NoOut
    /\ trace' = <<>>

ChatDone ==
    /\ pc = "chat"
    /\ chat_pc = "ret"
    /\ EndChat
    /\ pc' = "done"
    /\ IF chat_out.kind = "return"
       THEN result' = [text |-> chat_out.text] /\ raised' = raised
       ELSE result' = result /\ raised' = chat_out.msg
    /\ UNCHANGED <<entry, query, property_id, intent, responses, df, plan, payload>>
    /\ UNCHANGED <<seoVars, now, provider_calls, fetch_calls, trace, last_fetch,
                   prev_fetch, fault, procVars>>

\* the caller has its answer; the call's locals are gone and the process is
\* ready for the next call
Return ==
    /\ pc = "done"
    /\ pc' = "idle"
    /\ entry' = "none" /\ query' = "" /\ property_id' = NONE
    /\ intent' = NoIntent /\ responses' = <<>>
    /\ df' = NoTable /\ plan' = NoPlan /\ payload' = NoData
    /\ result' = NoResult /\ raised' = NONE
    /\ chat_pc' = "off" /\ attempt' = 0 /\ last_error' = NONE
    /\ api_calls' = 0 /\ waits' = <<>> /\ chat_out' = NoOut
    /\ oracle_calls' = 0 /\ provider_calls' = 0 /\ fetch_calls' = 0
    /\ trace' = <<>> /\ prev_fetch' = last_fetch /\ fault' = NoFault
    /\ UNCHANGED <<seoVars, now, last_fetch, procVars>>

\* wall-clock time passes between calls
Tick(d) ==
    /\ pc = "idle"
    /\ d \in TickSteps
    /\ now + d <= MaxClock
    /\ now' = now + d
    /\ UNCHANGED <<reqVars, chatVars, seoVars, histVars, procVars>>

----------------------------------------------------------------------------
(* AnalyticsAgent.process, stage by stage                                  *)

AnalyticsData == [reporting_plan |-> plan, raw_data |-> payload]

\* the property-id precondition, then _parse_query calls the oracle
AnalyticsStart ==
    /\ pc = "an_start"
    /\ IF Missing(property_id)
       THEN /\ Deliver("analytics", FailResponse("analytics", PropertyIdError), "route_seo")
            /\ ChatFrame
       ELSE /\ pc' = "an_parse"
            /\ StartChat
            /\ UNCHANGED <<responses, result, raised, trace>>
    /\ RequestFrame
    /\ UNCHANGED <<intent, df, plan, payload, seoVars, now, provider_calls,
                   fetch_calls, last_fetch, prev_fetch, fault, procVars>>

\* the oracle call of _parse_query is over: extract the plan, validate it
AnalyticsParsed ==
    /\ pc = "an_parse"
    /\ chat_pc = "ret"
    /\ EndChat
    /\ IF chat_out.kind = "raise"
       THEN /\ StageFails("analytics", "parse", chat_out.msg, "route_seo")
            /\ plan' = plan
       ELSE LET reporting_plan == AnalyticsParse(chat_out.text)
            IN  IF ValidateRaises(reporting_plan)
                THEN /\ StageFails("analytics", "validate",
                                    "'NoneType' object is not iterable", "route_seo")
                     /\ plan' = reporting_plan
                ELSE /\ plan' = _validate_plan(reporting_plan, set_order)
                     /\ pc' = "an_execute"
                     /\ UNCHANGED <<responses, result, raised, trace, fault>>
    /\ RequestFrame
    /\ UNCHANGED <<intent, df, payload, seoVars, now, provider_calls, fetch_calls,
                   last_fetch, prev_fetch, procVars>>

\* _execute_query: resolve the date range, call run_report, reshape; then
\* _generate_response calls the oracle
AnalyticsExecute(out) ==
    /\ pc = "an_execute"
    /\ out \in ProviderOutcomes
    /\ IF DateRangeRaises(plan)
       THEN /\ StageFails("analytics", "execute", "Invalid isoformat string: ''", "route_seo")
            /\ ChatFrame
            /\ UNCHANGED <<provider_calls, payload>>
       ELSE /\ provider_calls' = provider_calls + 1
            /\ IF out.kind = "raise"
               THEN /\ StageFails("analytics", "execute", out.msg, "route_seo")
                    /\ ChatFrame
                    /\ payload' = payload
               ELSE /\ payload' = Ga4Response(plan, out)
                    /\ pc' = "an_summarize"
                    /\ StartChat
                    /\ UNCHANGED <<responses, result, raised, trace, fault>>
    /\ RequestFrame
    /\ UNCHANGED <<intent, df, plan, seoVars, now, fetch_calls, last_fetch,
                   prev_fetch, procVars>>

\* the oracle call of _generate_response is over
AnalyticsSummarized ==
    /\ pc = "an_summarize"
    /\ chat_pc = "ret"
    /\ EndChat
    /\ IF chat_out.kind = "raise"
       THEN StageFails("analytics", "summarize", chat_out.msg, "route_seo")
       ELSE /\ Deliver("analytics", OkResponse("analytics", AnalyticsData, chat_out.text),
                       "route_seo")
            /\ fault' = fault
    /\ RequestFrame
    /\ UNCHANGED <<intent, df, plan, payload, seoVars, now, provider_calls,
                   fetch_calls, last_fetch, prev_fetch, procVars>>

----------------------------------------------------------------------------
(* SEOAgent.process, stage by stage                                        *)

JsonDump == "json.dumps(result_data)"

SeoData(table, p, result_data) ==
    [analysis_plan |-> p, result_data |-> result_data, total_urls |-> Len(table.rows)]

\* after _load_data returned `loaded`: the emptiness test, then _parse_query
\* calls the oracle
SEOAfterLoad(loaded) ==
    /\ df' = loaded
    /\ IF Unusable(loaded)
       THEN /\ Deliver("seo", FailResponse("seo", LoadError), "aggregate")
            /\ ChatFrame
       ELSE /\ pc' = "seo_parse"
            /\ StartChat
            /\ UNCHANGED <<responses, result, raised, trace>>

\* _load_data finds the cache fresh
SEOLoadCached ==
    /\ pc = "seo_start"
    /\ CacheFresh(now)
    /\ SEOAfterLoad(data_cache)
    /\ RequestFrame
    /\ UNCHANGED <<intent, plan, payload, seoVars, now, provider_calls, fetch_calls,
                   last_fetch, prev_fetch, fault, procVars>>

\* variant: when the fetch gives nothing, the table still in the cache is
\* returned
SEOLoadFetchStaleFallback(out) ==
    /\ pc = "seo_start"
    /\ ~CacheFresh(now)
    /\ out \in FetchOutcomes
    /\ fetch_calls' = fetch_calls + 1
    /\ IF out.kind = "table"
       THEN /\ data_cache' = out.table
            /\ cache_timestamp' = now
            /\ last_fetch' = now
            /\ SEOAfterLoad(out.table)
       ELSE /\ UNCHANGED <<data_cache, cache_timestamp, last_fetch>>
            /\ SEOAfterLoad(data_cache)
    /\ RequestFrame
    /\ UNCHANGED <<intent, plan, payload, now, provider_calls, prev_fetch, fault,
                   procVars>>

\* _load_data fetches the sheet; only a fetch that yields rows or a header
\* is stored
SEOLoadFetch(out) ==
    /\ pc = "seo_start"
    /\ ~CacheFresh(now)
    /\ out \in FetchOutcomes
    /\ fetch_calls' = fetch_calls + 1
    /\ IF out.kind = "table"
       THEN /\ data_cache' = out.table
            /\ cache_timestamp' = now
            /\ last_fetch' = now
            /\ SEOAfterLoad(out.table)
       ELSE /\ UNCHANGED <<data_cache, cache_timestamp, last_fetch>>
            /\ SEOAfterLoad(NoTable)
    /\ RequestFrame
    /\ UNCHANGED <<intent, plan, payload, now, provider_calls, prev_fetch, fault,
                   procVars>>

\* the oracle call of _parse_query is over: extract the plan, run
\* _execute_analysis, then _generate_response (which calls the oracle unless
\* the plan asks for JSON)
SEOParsed ==
    /\ pc = "seo_parse"
    /\ chat_pc = "ret"
    /\ IF chat_out.kind = "raise"
       THEN /\ StageFails("seo", "parse", chat_out.msg, "aggregate")
            /\ EndChat
            /\ UNCHANGED <<plan, payload>>
       ELSE LET analysis_plan == SeoParse(chat_out.text)
            IN  /\ plan' = analysis_plan
                /\ IF ExecRaises(df, analysis_plan)
                   THEN /\ StageFails("seo", "execute", ExecMsg(df, analysis_plan),
                                       "aggregate")
                        /\ EndChat
                        /\ payload' = payload
                   ELSE LET result_data == _execute_analysis(df, analysis_plan)
                        IN  /\ payload' = result_data
                            /\ fault' = fault
                            /\ IF Get(analysis_plan, "return_json", FALSE)
                               THEN /\ Deliver("seo",
                                          OkResponse("seo",
                                              SeoData(df, analysis_plan, result_data),
                                              JsonDump),
                                          "aggregate")
                                    /\ EndChat
                               ELSE /\ pc' = "seo_summarize"
                                    /\ StartChat
                                    /\ UNCHANGED <<responses, result, raised, trace>>
    /\ RequestFrame
    /\ UNCHANGED <<intent, df, seoVars, now, provider_calls, fetch_calls, last_fetch,
                   prev_fetch, procVars>>

\* the oracle call of _generate_response is over
SEOSummarized ==
    /\ pc = "seo_summarize"
    /\ chat_pc = "ret"
    /\ EndChat
    /\ IF chat_out.kind = "raise"
       THEN StageFails("seo", "summarize", chat_out.msg, "aggregate")
       ELSE /\ Deliver("seo", OkResponse("seo", SeoData(df, plan, payload), chat_out.text),
                       "aggregate")
            /\ fault' = fault
    /\ RequestFrame
    /\ UNCHANGED <<intent, df, plan, payload, seoVars, now, provider_calls,
                   fetch_calls, last_fetch, prev_fetch, procVars>>

----------------------------------------------------------------------------
(* Orchestrator.process_query                                              *)

\* _detect_intent's oracle call is over; an exception goes to the except
\* branch of process_query
DetectIntentReturn ==
    /\ pc = "detect"
    /\ chat_pc = "ret"
    /\ EndChat
    /\ IF chat_out.kind = "raise"
       THEN /\ result' = ErrorDict(chat_out.msg)
            /\ pc' = "done"
            /\ intent' = intent
            /\ trace' = Append(trace, "detect.raise")
       ELSE /\ intent' = DetectIntentFrom(query, chat_out.text)
            /\ pc' = "route_analytics"
            /\ result' = result
            /\ trace' = Append(trace, "detect.end")
    /\ RequestFrame
    /\ UNCHANGED <<responses, df, plan, payload, raised, seoVars, now, provider_calls,
                   fetch_calls, last_fetch, prev_fetch, fault, procVars>>

\* variant: without a property id the analytics handler is skipped and the
\* call goes on to the SEO branch
RouteAnalyticsSkipOnMissing ==
    /\ pc = "route_analytics"
    /\ IF intent.requires_analytics /\ ~Missing(property_id)
       THEN /\ pc' = "an_start"
            /\ trace' = Append(trace, "analytics.start")
       ELSE /\ pc' = "route_seo"
            /\ trace' = trace
    /\ result' = result
    /\ RequestFrame
    /\ ChatFrame
    /\ UNCHANGED <<intent, responses, df, plan, payload, raised, seoVars, now,
                   provider_calls, fetch_calls, last_fetch, prev_fetch, fault, procVars>>

\* "if intent.requires_analytics": the property-id check and the call
RouteAnalytics ==
    /\ pc = "route_analytics"
    /\ IF intent.requires_analytics
       THEN IF Missing(property_id)
            THEN /\ result' = MissingPropertyResult(intent)
                 /\ pc' = "done"
                 /\ trace' = trace
            ELSE /\ pc' = "an_start"
                 /\ result' = result
                 /\ trace' = Append(trace, "analytics.start")
       ELSE /\ pc' = "route_seo"
            /\ result' = result
            /\ trace' = trace
    /\ RequestFrame
    /\ ChatFrame
    /\ UNCHANGED <<intent, responses, df, plan, payload, raised, seoVars, now,
                   provider_calls, fetch_calls, last_fetch, prev_fetch, fault, procVars>>

\* the locals of a handler call that has returned are gone
DropLocals == df' = NoTable /\ plan' = NoPlan /\ payload' = NoData

\* variant: "elif intent.requires_seo", SEO only when analytics was not asked
RouteSeoOnlyIfUnanswered ==
    /\ pc = "route_seo"
    /\ IF intent.requires_seo /\ responses = <<>>
       THEN pc' = "seo_start" /\ trace' = Append(trace, "seo.start")
       ELSE pc' = "aggregate" /\ trace' = trace
    /\ DropLocals
    /\ RequestFrame
    /\ ChatFrame
    /\ UNCHANGED <<intent, responses, result, raised, seoVars, now,
                   provider_calls, fetch_calls, last_fetch, prev_fetch, fault, procVars>>

\* "if intent.requires_seo"
RouteSeo ==
    /\ pc = "route_seo"
    /\ IF intent.requires_seo
       THEN pc' = "seo_start" /\ trace' = Append(trace, "seo.start")
       ELSE pc' = "aggregate" /\ trace' = trace
    /\ DropLocals
    /\ RequestFrame
    /\ ChatFrame
    /\ UNCHANGED <<intent, responses, result, raised, seoVars, now,
                   provider_calls, fetch_calls, last_fetch, prev_fetch, fault, procVars>>

\* Step 3: no response, one response, or _fuse_responses up to its oracle call
Aggregate ==
    /\ pc = "aggregate"
    /\ IF Len(responses) = 0
       THEN /\ result' = NoAgentResult /\ pc' = "done" /\ trace' = trace /\ ChatFrame
       ELSE IF Len(responses) = 1
       THEN /\ result' = _format_single_response(responses[1])
            /\ pc' = "done" /\ trace' = trace /\ ChatFrame
       ELSE IF FuseErrors(responses) # <<>>
       THEN /\ result' = FusedFailure(responses)
            /\ pc' = "done"
            /\ trace' = Append(trace, "fuse")
            /\ ChatFrame
       ELSE /\ result' = result
            /\ pc' = "fuse"
            /\ trace' = Append(trace, "fuse")
            /\ StartChat
    /\ DropLocals
    /\ RequestFrame
    /\ UNCHANGED <<intent, responses, raised, seoVars, now,
                   provider_calls, fetch_calls, last_fetch, prev_fetch, fault, procVars>>

\* the oracle call of _fuse_responses is over
FuseReturn ==
    /\ pc = "fuse"
    /\ chat_pc = "ret"
    /\ EndChat
    /\ pc' = "done"
    /\ result' = IF chat_out.kind = "raise"
                 THEN ErrorDict(chat_out.msg)
                 ELSE FusedSuccess(responses, chat_out.text)
    /\ trace' = IF chat_out.kind = "raise" THEN Append(trace, "fuse.raise") ELSE trace
    /\ RequestFrame
    /\ UNCHANGED <<intent, responses, df, plan, payload, raised, seoVars, now,
                   provider_calls, fetch_calls, last_fetch, prev_fetch, fault,
                   procVars>>

----------------------------------------------------------------------------
(* The event loop and the /query requests it serves                        *)

Requests == {"a", "b"}

NoRequest == [pos |-> "none", current_time |-> NoTime, got |-> "nothing",
              table |-> NoTable, overlap |-> FALSE]

\* no request in flight, nothing running
NoLoop == [running |-> "none", reqs |-> [r \in Requests |-> NoRequest]]

InFlight == {"queued", "load", "fetching", "rest"}

----------------------------------------------------------------------------
(* The service: any public method may be called when the process is idle   *)

Init ==
    /\ pc = "idle"
    /\ entry = "none" /\ query = "" /\ property_id = NONE
    /\ intent = NoIntent /\ responses = <<>>
    /\ df = NoTable /\ plan = NoPlan /\ payload = NoData
    /\ result = NoResult /\ raised = NONE
    /\ chat_pc = "off" /\ attempt = 0 /\ last_error = NONE
    /\ api_calls = 0 /\ waits = <<>> /\ chat_out = NoOut
    /\ data_cache = NoTable /\ cache_timestamp = NoTime
    /\ now = StartClock
    /\ oracle_calls = 0 /\ provider_calls = 0 /\ fetch_calls = 0
    /\ trace = <<>> /\ last_fetch = NoTime /\ prev_fetch = NoTime /\ fault = NoFault
    /\ set_order \in SetOrders
    /\ loop = NoLoop

OracleTexts == IntentTexts \cup AnalyticsPlanTexts \cup SeoPlanTexts \cup SummaryTexts

\* LLMClient.chat, wherever it was called from
ChatSteps ==
    \/ \E text \in OracleTexts : ChatAttemptOk(text)
    \/ \E e \in ApiFailures : ChatAttemptFail(e)

\* the same, with the API failing in one retryable and one fatal way only
SampleFailures ==
    { [cls |-> "RateLimitError", status_code |-> 429],
      [cls |-> "APIError",       status_code |-> 400] }

ChatStepsSampled ==
    \/ \E text \in OracleTexts : ChatAttemptOk(text)
    \/ \E e \in SampleFailures : ChatAttemptFail(e)

AnalyticsSteps ==
    \/ AnalyticsStart
    \/ AnalyticsParsed
    \/ \E out \in ProviderOutcomes : AnalyticsExecute(out)
    \/ AnalyticsSummarized

SEOSteps ==
    \/ SEOLoadCached
    \/ \E out \in FetchOutcomes : SEOLoadFetch(out)
    \/ SEOParsed
    \/ SEOSummarized

\* The service behind POST /query: process_query calls, one after another,
\* within one TTL window.
Next ==
    \/ \E q \in Queries, pid \in PropertyIds : CallProcessQuery(q, pid)
    \/ ChatStepsSampled
    \/ AnalyticsSteps
    \/ SEOSteps
    \/ DetectIntentReturn
    \/ RouteAnalytics
    \/ RouteSeo
    \/ Aggregate
    \/ FuseReturn
    \/ Return

Spec == Init /\ [][Next]_vars

\* Each handler's process and the oracle client called on their own, within
\* one TTL window.
NextHandlers ==
    \/ \E q \in DirectQueries, pid \in PropertyIds : CallAnalyticsProcess(q, pid)
    \/ \E q \in DirectQueries : CallSEOProcess(q)
    \/ CallChat
    \/ ChatDone
    \/ ChatSteps
    \/ AnalyticsSteps
    \/ SEOSteps
    \/ Return

SpecHandlers == Init /\ [][NextHandlers]_vars

\* SEOAgent.process called on its own, with time passing between calls.
NextSEO ==
    \/ \E q \in DirectQueries : CallSEOProcess(q)
    \/ ChatStepsSampled
    \/ SEOSteps
    \/ Return
    \/ \E d \in TickSteps : Tick(d)

SpecSEO == Init /\ [][NextSEO]_vars

----------------------------------------------------------------------------
(* _execute_analysis on its own: every table and plan of the bounded input *)
(* space, one call each                                                    *)

MaxRows  == 3
MaxLimit == 2

ExecRows ==
    { <<"https://a.io/", "Indexable", "120">>,
      <<"http://a.io/old", "Non-Indexable", NONE>>,
      <<"https://a.io/b", " \t", "7">> }

ExecTables ==
    { [columns |-> SheetColumns, rows |-> r] :
        r \in UNION { [1..n -> ExecRows] : n \in 0..MaxRows } }

ExecFilterLists ==
    { <<>>,
      << [column |-> "url", operator |-> "contains", value |-> "HTTPS"] >>,
      << [column |-> "bogus", operator |-> "equals", value |-> "x"],
         [column |-> "word count", operator |-> "greater", value |-> "10"] >>,
      << [column |-> "Indexability", operator |-> "not_empty", value |-> ""] >>,
      << [column |-> "word count", operator |-> "is_empty"] >> }

ExecPlans ==
    [ filters        : ExecFilterLists,
      group_by       : { NONE, "indexability", "bogus" },
      aggregation    : { NONE, "count", "sum" },
      select_columns : { <<>>, <<"url", "nothing">> },
      limit          : 0..MaxLimit ]

InitExec ==
    /\ pc = "exec_ready"
    /\ entry = "_execute_analysis" /\ query = "" /\ property_id = NONE
    /\ intent = NoIntent /\ responses = <<>>
    /\ df \in ExecTables /\ plan \in ExecPlans /\ payload = NoData
    /\ result = NoResult /\ raised = NONE
    /\ chat_pc = "off" /\ attempt = 0 /\ last_error = NONE
    /\ api_calls = 0 /\ waits = <<>> /\ chat_out = NoOut
    /\ data_cache = NoTable /\ cache_timestamp = NoTime
    /\ now = StartClock
    /\ oracle_calls = 0 /\ provider_calls = 0 /\ fetch_calls = 0
    /\ trace = <<>> /\ last_fetch = NoTime /\ prev_fetch = NoTime /\ fault = NoFault
    /\ set_order = "source"
    /\ loop = NoLoop

\* result_data = self._execute_analysis(df, analysis_plan)
ExecuteAnalysis ==
    /\ pc = "exec_ready"
    /\ pc' = "exec_done"
    /\ IF ExecRaises(df, plan)
       THEN raised' = ExecMsg(df, plan) /\ result' = result
       ELSE raised' = raised /\ result' = _execute_analysis(df, plan)
    /\ UNCHANGED <<entry, query, property_id, intent, responses, df, plan, payload>>
    /\ UNCHANGED <<chatVars, seoVars, now, histVars, procVars>>

NextExec == ExecuteAnalysis

SpecExec == InitExec /\ [][NextExec]_vars

----------------------------------------------------------------------------
(* The filter loop of _execute_analysis on its own: plans that reach the   *)
(* ungrouped return, with one, two and three filter clauses                *)

FilterLists ==
    { <<>>,
      << [column |-> "word count", operator |-> "contains", value |-> "NONE"] >>,
      << [column |-> "Address", operator |-> "not_contains", value |-> "OLD"] >>,
      << [column |-> "url", operator |-> "contains", value |-> "HTTP.:"],
         [column |-> "word count", operator |-> "not_contains", value |-> "7"] >>,
      << [column |-> "indexability", operator |-> "not_equals", value |-> "Non-Indexable"],
         [column |-> "bogus", operator |-> "equals", value |-> "x"],
         [column |-> "word count", operator |-> "greater", value |-> "10"] >> }

FilterPlans ==
    [ filters        : FilterLists,
      group_by       : { NONE, "bogus" },
      aggregation    : { "count" },
      select_columns : { <<>>, <<"url", "nothing">> },
      limit          : 0..MaxLimit ]

InitFilters ==
    /\ pc = "exec_ready"
    /\ entry = "_execute_analysis" /\ query = "" /\ property_id = NONE
    /\ intent = NoIntent /\ responses = <<>>
    /\ df \in ExecTables /\ plan \in FilterPlans /\ payload = NoData
    /\ result = NoResult /\ raised = NONE
    /\ chat_pc = "off" /\ attempt = 0 /\ last_error = NONE
    /\ api_calls = 0 /\ waits = <<>> /\ chat_out = NoOut
    /\ data_cache = NoTable /\ cache_timestamp = NoTime
    /\ now = StartClock
    /\ oracle_calls = 0 /\ provider_calls = 0 /\ fetch_calls = 0
    /\ trace = <<>> /\ last_fetch = NoTime /\ prev_fetch = NoTime /\ fault = NoFault
    /\ set_order = "source"
    /\ loop = NoLoop

NextFilters == ExecuteAnalysis

SpecFilters == InitFilters /\ [][NextFilters]_vars

----------------------------------------------------------------------------
(* _validate_plan on its own: each raw plan of the bounded input space is  *)
(* validated twice, with an interpreter restart possible in between        *)

MaxNames == 2

NameLists(S) == UNION { [1..n -> S] : n \in 0..MaxNames }

MetricNames == { "sessions", "page views", "bogus", "user", "screenPageViewsPerSession" }

DimensionNames == { "day", "pagepath", "bogus", "dateHour" }

FilterItems ==
    { [dimension |-> "pagePath", value |-> "/a"],
      [dimension |-> "day",      value |-> "x"],
      [dimension |-> "pagepath", value |-> "/a"],
      [dimension |-> "bogus",    value |-> "x"],
      [value |-> "x"] }

RawPlans ==
    { [metrics |-> m] : m \in NameLists(MetricNames) }
    \cup { [metrics |-> <<VALID_METRICS[i]>>] : i \in 1..Len(VALID_METRICS) }
    \cup { [metrics |-> <<"user", VALID_METRICS[i]>>] : i \in 1..Len(VALID_METRICS) }
    \cup { [dimensions |-> d] : d \in NameLists(DimensionNames) }
    \cup { [dimensions |-> <<VALID_DIMENSIONS[i]>>] : i \in 1..Len(VALID_DIMENSIONS) }
    \cup { [filters |-> f] : f \in NameLists(FilterItems) }
    \cup { [metrics |-> <<"sessions">>, order_by |-> o] : o \in {"sessions", "bogus"} }
    \cup { [metrics |-> <<"views", "user">>, dimensions |-> <<"Page">>,
            filters |-> << [dimension |-> "country", value |-> "US"] >>,
            date_range |-> [type |-> "relative", days |-> 30]] }
    \cup { [nulls |-> {"dimensions"}] }

IterationError == "'NoneType' object is not iterable"

InitValidate ==
    /\ pc = "validate"
    /\ entry = "_validate_plan" /\ query = "" /\ property_id = NONE
    /\ intent = NoIntent /\ responses = <<>>
    /\ df = NoTable /\ plan \in RawPlans /\ payload = NoData
    /\ result = NoResult /\ raised = NONE
    /\ chat_pc = "off" /\ attempt = 0 /\ last_error = NONE
    /\ api_calls = 0 /\ waits = <<>> /\ chat_out = NoOut
    /\ data_cache = NoTable /\ cache_timestamp = NoTime
    /\ now = StartClock
    /\ oracle_calls = 0 /\ provider_calls = 0 /\ fetch_calls = 0
    /\ trace = <<>> /\ last_fetch = NoTime /\ prev_fetch = NoTime /\ fault = NoFault
    /\ set_order \in SetOrders
    /\ loop = NoLoop

\* validated_plan = self._validate_plan(reporting_plan), first run
ValidatePlan ==
    /\ pc = "validate"
    /\ IF ValidateRaises(plan)
       THEN /\ raised' = IterationError
            /\ pc' = "done"
            /\ payload' = payload
       ELSE /\ payload' = _validate_plan(plan, set_order)
            /\ pc' = "validated"
            /\ raised' = raised
    /\ trace' = Append(trace, set_order)
    /\ UNCHANGED <<entry, query, property_id, intent, responses, df, plan, result>>
    /\ UNCHANGED <<chatVars, seoVars, now, oracle_calls, provider_calls, fetch_calls,
                   last_fetch, prev_fetch, fault, procVars>>

\* the server process is started anew: the allowlist sets are rebuilt at
\* import, under whatever string hashing the new interpreter has
Restart ==
    /\ pc = "validated"
    /\ Len(trace) = 1
    /\ set_order' \in SetOrders
    /\ loop' = loop
    /\ trace' = Append(trace, "restart")
    /\ UNCHANGED <<reqVars, chatVars, seoVars, now, oracle_calls, provider_calls,
                   fetch_calls, last_fetch, prev_fetch, fault>>

\* the same raw plan is validated again
ValidateAgain ==
    /\ pc = "validated"
    /\ result' = _validate_plan(plan, set_order)
    /\ pc' = "done"
    /\ trace' = Append(trace, set_order)
    /\ UNCHANGED <<entry, query, property_id, intent, responses, df, plan, payload,
                   raised>>
    /\ UNCHANGED <<chatVars, seoVars, now, oracle_calls, provider_calls, fetch_calls,
                   last_fetch, prev_fetch, fault, procVars>>

NextValidate ==
    \/ ValidatePlan
    \/ Restart
    \/ ValidateAgain

SpecValidate == InitValidate /\ [][NextValidate]_vars

----------------------------------------------------------------------------
(* Two /query requests in flight in one process, both needing the SEO      *)
(* table. The endpoint is a coroutine on uvicorn's single event loop: it   *)
(* runs until it awaits something that is not ready.                       *)

\* variant: the outbound calls are awaited and give up the loop
SuspendsAtIO(point) == point \in {"oracle", "provider", "fetch"}

\* Does the running request give up the event loop at this call? The
\* oracle, provider and spreadsheet calls are plain blocking calls
\* (structured_chat(...), run_report(...), .execute()), none is awaited.
Suspends(point) == FALSE

Req(r) == loop.reqs[r]

SetReq(r, fields, running) ==
    loop' = [running |-> running,
             reqs |-> [loop.reqs EXCEPT ![r] = fields @@ loop.reqs[r]]]

\* a client's POST /query arrives while the process is up
Accept(r) ==
    /\ Req(r).pos = "none"
    /\ SetReq(r, [pos |-> "queued",
                  overlap |-> \E s \in Requests \ {r} : Req(s).pos \in InFlight],
              loop.running)
    /\ UNCHANGED <<reqVars, chatVars, seoVars, now, histVars, set_order>>

\* the loop starts the endpoint coroutine; it runs (process_query, intent
\* detection, SEOAgent.process) up to current_time = time.time()
Dispatch(r) ==
    /\ Req(r).pos = "queued"
    /\ loop.running = "none"
    /\ SetReq(r, [pos |-> "load", current_time |-> now], r)
    /\ UNCHANGED <<reqVars, chatVars, seoVars, now, histVars, set_order>>

\* _load_data: the cache is fresh
LoadCached(r) ==
    /\ loop.running = r
    /\ Req(r).pos = "load"
    /\ CacheFresh(Req(r).current_time)
    /\ SetReq(r, [pos |-> "rest", got |-> "cache", table |-> data_cache], r)
    /\ UNCHANGED <<reqVars, chatVars, seoVars, now, histVars, set_order>>

\* _load_data: the cache is not fresh, the spreadsheet request is sent
FetchIssue(r) ==
    /\ loop.running = r
    /\ Req(r).pos = "load"
    /\ ~CacheFresh(Req(r).current_time)
    /\ fetch_calls' = fetch_calls + 1
    /\ SetReq(r, [pos |-> "fetching"], IF Suspends("fetch") THEN "none" ELSE r)
    /\ UNCHANGED <<reqVars, chatVars, seoVars, now, oracle_calls, provider_calls,
                   trace, last_fetch, prev_fetch, fault, set_order>>

\* the spreadsheet request is over: a table is stored under the time taken
\* before the fetch, anything else stores nothing
FetchComplete(r, out) ==
    /\ Req(r).pos = "fetching"
    /\ loop.running = r \/ (Suspends("fetch") /\ loop.running = "none")
    /\ out \in FetchOutcomes
    /\ IF out.kind = "table"
       THEN /\ data_cache' = out.table
            /\ cache_timestamp' = Req(r).current_time
            /\ last_fetch' = Req(r).current_time
            /\ SetReq(r, [pos |-> "rest", got |-> "table", table |-> out.table], r)
       ELSE /\ UNCHANGED <<data_cache, cache_timestamp, last_fetch>>
            /\ SetReq(r, [pos |-> "rest", got |-> "failed"], r)
    /\ UNCHANGED <<reqVars, chatVars, now, oracle_calls, provider_calls, fetch_calls,
                   trace, prev_fetch, fault, set_order>>

\* the rest of the request (parse, analysis, summary) and its response
Finish(r) ==
    /\ loop.running = r
    /\ Req(r).pos = "rest"
    /\ SetReq(r, [pos |-> "done"], "none")
    /\ UNCHANGED <<reqVars, chatVars, seoVars, now, histVars, set_order>>

\* time passes, whatever the loop is doing
Elapse(d) ==
    /\ d \in TickSteps
    /\ now + d <= MaxClock
    /\ now' = now + d
    /\ UNCHANGED <<reqVars, chatVars, seoVars, histVars, procVars>>

NextRace ==
    \/ \E r \in Requests : Accept(r)
    \/ \E r \in Requests : Dispatch(r)
    \/ \E r \in Requests : LoadCached(r)
    \/ \E r \in Requests : FetchIssue(r)
    \/ \E r \in Requests, out \in FetchOutcomes : FetchComplete(r, out)
    \/ \E r \in Requests : Finish(r)
    \/ \E d \in TickSteps : Elapse(d)

SpecRace == Init /\ [][NextRace]_vars

----------------------------------------------------------------------------
(* Properties                                                              *)

KeywordReasoning == "Keyword-based detection"

\* process_query has returned after both handlers answered
FusedDone == pc = "done" /\ entry = "process_query" /\ Len(responses) = 2

\* exactly one of the two handler results succeeded, the other carries an error
OneOkOneError(ok, bad) ==
    /\ {ok, bad} = {1, 2}
    /\ responses[ok].success /\ responses[ok].error = NONE
    /\ responses[bad].error # NONE /\ responses[bad].error # ""

\* C1: when one of two handler results succeeded and the other carries an
\* error, the fused result is a failure whose error is the join of the
\* handler errors (here the failing handler's message) and whose
\* partial_data holds exactly the succeeding handler's data under its name.
C1_FusePartialFailure ==
    FusedDone =>
        \A ok, bad \in {1, 2} :
            OneOkOneError(ok, bad) =>
                /\ result.success = FALSE
                /\ result.error = responses[bad].error
                /\ DOMAIN result.partial_data = { responses[ok].agent_name }
                /\ result.partial_data[responses[ok].agent_name] = responses[ok].data

C1_Witness ==
    /\ FusedDone
    /\ OneOkOneError(1, 2)
    /\ responses[1].agent_name = "analytics"
    /\ result.success = FALSE

\* C2 as stated: every intent _detect_intent returns selects a handler, and
\* process_query never ends in the "Could not determine appropriate agent"
\* outcome.
C2_AlwaysSomeHandler ==
    /\ intent # NoIntent => (intent.requires_analytics \/ intent.requires_seo)
    /\ (pc = "done" /\ entry = "process_query") => result # NoAgentResult

\* C2 amended: an intent produced by the keyword fallback always selects a
\* handler; an intent with both flags false comes from a parsed classifier
\* object only, and process_query then returns the "Could not determine
\* appropriate agent" failure with no handler called.
C2_FallbackSelectsHandler ==
    /\ (intent # NoIntent /\ intent.reasoning = KeywordReasoning)
          => (intent.requires_analytics \/ intent.requires_seo)
    /\ (pc = "done" /\ intent # NoIntent
            /\ ~intent.requires_analytics /\ ~intent.requires_seo)
          => /\ result = NoAgentResult
             /\ responses = <<>>
             /\ oracle_calls = 1

C2_Witness ==
    /\ pc = "done"
    /\ intent # NoIntent
    /\ intent.reasoning = KeywordReasoning
    /\ query = "Hello there"
    /\ intent.requires_analytics

\* a handler's process has returned or raised
HandlerDone == pc = "done" /\ entry \in {"analytics.process", "seo.process"}

AgentOf(e) == IF e = "analytics.process" THEN "analytics" ELSE "seo"

\* C3: a failure raised in the parse, validate, execute or summarize stage
\* of either handler never leaves process; process returns success=false,
\* data=None and the failure's message as error.
C3_StageFailureCaught ==
    HandlerDone =>
        /\ raised = NONE
        /\ fault # NoFault =>
              /\ fault.stage \in {"parse", "validate", "execute", "summarize"}
              /\ result.success = FALSE
              /\ result.data = NoData
              /\ result.error = fault.msg
              /\ result.agent_name = AgentOf(entry)

C3_Witness ==
    /\ HandlerDone
    /\ entry = "seo.process"
    /\ fault.stage = "execute"
    /\ result.error = "could not convert string to float"

\* C4: a load less than 300 seconds after the last successful fetch hands
\* out the cached table and fetches nothing; any other load fetches exactly
\* once.
C4_CacheWindow ==
    (entry = "seo.process" /\ pc \notin {"idle", "seo_start"}) =>
        IF prev_fetch # NoTime /\ now - prev_fetch < 300
        THEN fetch_calls = 0 /\ df = data_cache /\ last_fetch = prev_fetch
        ELSE fetch_calls = 1

\* a load after expiry: the second fetch of the process
C4_Witness ==
    /\ entry = "seo.process"
    /\ pc = "seo_parse"
    /\ prev_fetch # NoTime
    /\ now - prev_fetch >= 300
    /\ fetch_calls = 1
    /\ last_fetch = now

\* C5: _execute_analysis never returns more records than the plan's limit,
\* grouped plans included.
C5_LimitBoundsRecords ==
    (pc = "exec_done" /\ raised = NONE) => Len(result.data) <= plan.limit

RetryableMsgs ==
    { "Rate limit reached", "Connection error.", "Request timed out.",
      "Error code: 429", "Error code: 503" }

ExhaustedMsgs == { "Failed after 5 retries. Last error: " \o m : m \in RetryableMsgs }

\* C6: one chat makes at most 5 API calls; it returns on the first success;
\* a retryable failure is never re-raised as such but followed by another
\* attempt; the fifth retryable failure in a row ends the call with the
\* terminal failure, which a calling handler returns as success=false.
C6_BoundedRetry ==
    /\ api_calls <= 5
    /\ chat_pc = "loop" => (api_calls = attempt /\ attempt < 5)
    /\ (chat_pc = "ret" /\ chat_out.kind = "return") => api_calls = attempt + 1
    /\ (chat_pc = "ret" /\ chat_out.kind = "raise") =>
          /\ chat_out.msg \notin RetryableMsgs
          /\ chat_out.msg \in ExhaustedMsgs <=> (attempt = 5 /\ api_calls = 5)
    /\ (HandlerDone /\ fault.msg \in ExhaustedMsgs) =>
          (raised = NONE /\ result.success = FALSE /\ result.error = fault.msg)

C6_Witness ==
    /\ HandlerDone
    /\ fault.msg = "Failed after 5 retries. Last error: Error code: 503"
    /\ result.success = FALSE

ClientErrorMsg == "Error code: 400"

\* C7: a 4xx error other than 429 ends chat at once, on any attempt: it is
\* never recorded as a retried error, no wait is added for it, and a calling
\* handler returns it as a failure result.
C7_ClientErrorFatal ==
    /\ last_error # ClientErrorMsg
    /\ (chat_pc = "ret" /\ chat_out.kind = "raise" /\ chat_out.msg = ClientErrorMsg) =>
          (api_calls = attempt + 1 /\ Len(waits) = attempt)
    /\ (HandlerDone /\ fault.msg = ClientErrorMsg) =>
          (raised = NONE /\ result.success = FALSE /\ result.error = ClientErrorMsg)

C7_Witness ==
    /\ chat_pc = "ret"
    /\ chat_out.kind = "raise"
    /\ chat_out.msg = ClientErrorMsg
    /\ attempt = 2
    /\ pc = "an_summarize"

\* C8: AnalyticsAgent.process without a property id returns the fixed
\* failure, raises nothing, and calls neither the oracle nor the provider.
C8_PropertyIdRequired ==
    (entry = "analytics.process" /\ property_id \in {NONE, ""}) =>
        /\ oracle_calls = 0 /\ provider_calls = 0 /\ chat_pc = "off"
        /\ pc \in {"an_start", "done"}
        /\ pc = "done" =>
              /\ raised = NONE
              /\ result = [success |-> FALSE, data |-> NoData, message |-> "",
                            agent_name |-> "analytics",
                            error |-> "GA4 propertyId is required for analytics queries"]

C8_Witness ==
    /\ entry = "analytics.process"
    /\ property_id = ""
    /\ pc = "done"
    /\ result.success = FALSE

\* the query, lower-cased, contains one of the keywords
Mentions(q, kws) == \E i \in 1..Len(kws) : Contains(Lower(q), kws[i])

FallbackRan == intent # NoIntent /\ intent.reasoning = KeywordReasoning

\* C9: in the keyword fallback a query with an SEO keyword and no analytics
\* keyword gets requires_seo = true.
C9_SeoKeywordsRouteToSeo ==
    (FallbackRan /\ Mentions(query, seo_keywords) /\ ~Mentions(query, analytics_keywords))
        => intent.requires_seo

C9_Witness ==
    /\ FallbackRan
    /\ query = "META audit"
    /\ intent.requires_seo
    /\ pc = "seo_start"

\* C10: in the keyword fallback a query matching neither keyword set gets
\* requires_analytics = true, requires_seo = false, is_cross_agent = false.
C10_DefaultsToAnalytics ==
    (FallbackRan /\ ~Mentions(query, seo_keywords) /\ ~Mentions(query, analytics_keywords))
        => /\ intent.requires_analytics = TRUE
           /\ intent.requires_seo = FALSE
           /\ intent.is_cross_agent = FALSE

C10_Witness ==
    /\ FallbackRan
    /\ query = "Hello there"
    /\ pc = "an_start"
    /\ ~intent.requires_seo

----------------------------------------------------------------------------
(* _validate_plan                                                          *)

\* the first validation of the raw plan has returned
ValidatedOnce == pc \in {"validated", "done"} /\ raised = NONE /\ payload # NoData

FilterDimensions(filters) ==
    { Get(filters[i], "dimension", "") : i \in 1..Len(filters) }

AllowlistedNames == Range(VALID_METRICS) \cup Range(VALID_DIMENSIONS)

C12_CanonicalNamesKept ==
    ValidatedOnce =>
        /\ \A m \in Range(Get(plan, "metrics", <<>>)) :
              m \in Range(VALID_METRICS) => m \in Range(payload.metrics)
        /\ \A d \in Range(Get(plan, "dimensions", <<>>)) :
              d \in Range(VALID_DIMENSIONS) => d \in Range(payload.dimensions)

C12_Witness ==
    /\ ValidatedOnce
    /\ Get(plan, "metrics", <<>>) = <<"screenPageViewsPerSession">>
    /\ payload.metrics = <<"screenPageViewsPerSession">>

\* no requested metric resolves under iteration order `order`
NoMetricResolves(order) ==
    \A m \in Range(Get(plan, "metrics", <<>>)) : ResolveMetric(m, order) = NONE

\* C13: when no requested metric resolves (none requested, or all
\* dropped), the validated metrics are exactly <<"screenPageViews">>, in
\* the first validation and in the second.
C13_DefaultMetric ==
    /\ ValidatedOnce /\ NoMetricResolves(trace[1])
          => payload.metrics = <<"screenPageViews">>
    /\ pc = "done" /\ raised = NONE /\ NoMetricResolves(trace[Len(trace)])
          => result.metrics = <<"screenPageViews">>

C13_Witness ==
    /\ pc = "done"
    /\ Get(plan, "metrics", <<>>) = <<"bogus", "bogus">>
    /\ payload.metrics = <<"screenPageViews">>
    /\ result.metrics = <<"screenPageViews">>

\* allowlist entries the substring match accepts for `name`
FuzzyCandidates(name, list) ==
    { v \in Range(list) : \/ Contains(Lower(v), Lower(name))
                          \/ Contains(Lower(name), Lower(v)) }

\* `name` resolves the same way whatever the iteration order of the set
OrderFree(name, mappings, list) ==
    \/ Lower(name) \in DOMAIN mappings
    \/ name \in Range(list)
    \/ Cardinality(FuzzyCandidates(name, list)) <= 1

BothValidated == pc = "done" /\ raised = NONE /\ result # NoResult

\* C18 as stated: two validations of the same raw plan return the same
\* validated plan, fuzzy-matched names included.
C18_SameValidatedPlan ==
    BothValidated => payload = result

\* C18 amended: the two validated plans are equal, even across a restart
\* of the interpreter, when every requested name is a common name of the
\* mapping table, an exact allowlist entry, or fuzzy-matches at most one
\* allowlist entry.
C18_SamePlanWhenOrderFree ==
    ( /\ BothValidated
      /\ \A m \in Range(Get(plan, "metrics", <<>>)) :
            OrderFree(m, METRIC_MAPPINGS, VALID_METRICS)
      /\ \A d \in Range(Get(plan, "dimensions", <<>>)) :
            OrderFree(d, DIMENSION_MAPPINGS, VALID_DIMENSIONS) )
    => payload = result

C18_Witness ==
    /\ BothValidated
    /\ trace = <<"source", "restart", "reversed">>
    /\ Get(plan, "dimensions", <<>>) = <<"pagepath">>
    /\ payload.dimensions = <<"pagePath">>
    /\ result.dimensions = <<"pagePath">>

\* the filter's dimension resolves through the three tiers used for
\* dimensions
ResolvesAsDimension(filter_item, order) ==
    Truthy(ResolveDimension(Get(filter_item, "dimension", ""), order))

\* C20 as stated: the kept filters are exactly the requested filters whose
\* dimension resolves through the three-tier match, fuzzy match included.
C20_FiltersThreeTier ==
    ValidatedOnce =>
        LET Resolves(f) == ResolvesAsDimension(f, trace[1])
        IN  payload.filters = SelectSeq(Get(plan, "filters", <<>>), Resolves)

\* the filter's dimension is an allowlist entry or a common name
ExactOrMapped(filter_item) ==
    LET dim == Get(filter_item, "dimension", "")
    IN  dim \in Range(VALID_DIMENSIONS) \/ Lower(dim) \in DOMAIN DIMENSION_MAPPINGS

\* C20 amended: the kept filters are exactly the requested filters whose
\* dimension is an allowlist entry or, lower-cased, a common name of the
\* mapping table; each of them also resolves through the three-tier match,
\* but a dimension only the fuzzy match would resolve is dropped.
C20_FiltersExactOrMapped ==
    ValidatedOnce =>
        /\ payload.filters = SelectSeq(Get(plan, "filters", <<>>), ExactOrMapped)
        /\ \A i \in 1..Len(payload.filters) :
              ResolvesAsDimension(payload.filters[i], trace[1])

C20_Witness ==
    /\ ValidatedOnce
    /\ Get(plan, "filters", <<>>) = << [dimension |-> "pagePath", value |-> "/a"],
                                       [dimension |-> "pagepath", value |-> "/a"] >>
    /\ payload.filters = << [dimension |-> "pagePath", value |-> "/a"] >>

----------------------------------------------------------------------------
(* _execute_analysis: is_empty and not_empty                               *)

\* the cell is missing, null, or made of whitespace only
Blank(cell) ==
    cell = NONE \/ \A i \in 0..(Len(cell) - 1) : IsSpace(CharAt(cell, i))

EmptyClause(column, operator) == << [column |-> column, operator |-> operator] >>

\* C14: after a call whose plan is one is_empty filter (no grouping, no
\* column selection): on the table of the call, for every column, an
\* is_empty filter keeps exactly the rows whose cell is blank and a
\* not_empty filter keeps exactly the other rows, in table order; and the
\* list the call returned is the head of the blank rows.
C14_EmptyFiltersPartition ==
    ( /\ pc = "exec_done"
      /\ plan.filters = EmptyClause("word count", "is_empty")
      /\ plan.group_by = NONE /\ plan.select_columns = <<>> ) =>
        /\ \A k \in 1..Len(df.columns) :
              LET column   == df.columns[k]
                  IsBlank(row) == Blank(row[k])
                  NotBlank(row) == ~Blank(row[k])
                  empty    == ApplyFilters(df.columns, df.rows,
                                           EmptyClause(column, "is_empty"))
                  nonempty == ApplyFilters(df.columns, df.rows,
                                           EmptyClause(column, "not_empty"))
              IN  /\ empty = SelectSeq(df.rows, IsBlank)
                  /\ nonempty = SelectSeq(df.rows, NotBlank)
                  /\ Len(empty) + Len(nonempty) = Len(df.rows)
        /\ LET IsBlank(row) == Blank(row[3])
           IN  result.total_matching
                  = Len(HeadRows(SelectSeq(df.rows, IsBlank), plan.limit))

C14_Witness ==
    /\ pc = "exec_done"
    /\ plan.filters = EmptyClause("word count", "is_empty")
    /\ plan.group_by = NONE /\ plan.select_columns = <<>>
    /\ Len(df.rows) = 3
    /\ \E i, j \in 1..3 : df.rows[i][2] = " \t" /\ df.rows[j][3] = NONE
    /\ result.total_matching = 1

----------------------------------------------------------------------------
(* The parse stage on unparsable oracle text                               *)

\* the oracle call of a parse stage has returned text without a JSON object
UnparsableAt(stage) ==
    /\ pc = stage
    /\ chat_pc = "ret"
    /\ chat_out.kind = "return"
    /\ ~ExtractJson(chat_out.text).ok

\* C15: when the oracle's text holds no parsable JSON object, the parse
\* stage of either handler yields the default plan and the handler goes on:
\* Analytics to its provider call with the (validated) default plan, SEO
\* through _execute_analysis of the default plan to its summary.
C15_ParseFallsBackToDefault ==
    [][ /\ UnparsableAt("an_parse") =>
              /\ pc' = "an_execute"
              /\ plan' = AnalyticsDefaultPlan
              /\ fault' = fault
        /\ UnparsableAt("seo_parse") =>
              /\ pc' = "seo_summarize"
              /\ plan' = SeoDefaultPlan
              /\ payload' = _execute_analysis(df, SeoDefaultPlan)
              /\ fault' = fault ]_vars

C15_Witness ==
    /\ pc = "seo_summarize"
    /\ plan = SeoDefaultPlan
    /\ plan.operation = "list" /\ plan.filters = <<>> /\ plan.limit = 100
    /\ payload.type = "list"
    /\ fault = NoFault

----------------------------------------------------------------------------
(* process_query as a whole                                                *)

ProcessQueryDone == pc = "done" /\ entry = "process_query"

\* a handler returned a failure, or the oracle failed in _detect_intent or
\* in _fuse_responses
FailureOccurred ==
    \/ \E i \in 1..Len(responses) : ~responses[i].success
    \/ "detect.raise" \in Range(trace)
    \/ "fuse.raise" \in Range(trace)

\* C16: process_query never raises; what it returns has a boolean success
\* field, and whenever a handler or the oracle failed during the call,
\* success is false and error is not null.
C16_NeverRaisesFailureReported ==
    ProcessQueryDone =>
        /\ raised = NONE
        /\ result.success \in BOOLEAN
        /\ FailureOccurred =>
              /\ result.success = FALSE
              /\ "error" \in DOMAIN result
              /\ result.error # NONE

----------------------------------------------------------------------------
(* LLMClient.chat: the waits                                               *)

BackoffSchedule == <<1, 2, 4, 8, 16>>

\* C19: the sleeps of the running chat are, in order, 1, 2, 4, 8, 16
\* seconds, one after each failed retryable attempt (the fifth included),
\* each twice the one before.
C19_ExponentialBackoff ==
    /\ Len(waits) = attempt
    /\ waits = SubSeq(BackoffSchedule, 1, attempt)
    /\ \A k \in 2..Len(waits) : waits[k] = 2 * waits[k - 1]
    /\ Len(waits) > 0 => waits[1] = base_delay

C19_Witness ==
    /\ chat_pc = "ret"
    /\ chat_out.kind = "raise"
    /\ api_calls = 5
    /\ waits = <<1, 2, 4, 8, 16>>

----------------------------------------------------------------------------
(* Concurrent requests and the SEO cache                                   *)

Running == {"load", "fetching", "rest"}

\* the cache holds one whole fetched table, or nothing
CacheWhole ==
    /\ data_cache = NoTable <=> cache_timestamp = NoTime
    /\ data_cache # NoTable =>
          \E out \in FetchOutcomes : out.kind = "table" /\ data_cache = out.table

\* C17 as stated: a request can reach _load_data while another request's
\* fetch on the expired cache is outstanding, and so fetch as well:
\* whenever one request's fetch is outstanding and another request is
\* waiting, the loop can start the waiting request; and the cache holds a
\* whole table, that of the fetch that finished last.
C17_ConcurrentRequestsEachFetch ==
    /\ \A r \in Requests : \A s \in Requests \ {r} :
          (Req(r).pos = "fetching" /\ Req(s).pos = "queued") => ENABLED Dispatch(s)
    /\ CacheWhole

\* C17 amended: requests do not overlap: while one request is between its
\* start and its response, no other request is; two requests that both
\* stored a fetched table took their load times at least _cache_ttl apart;
\* a request that continues after its load still finds in the cache what it
\* loaded; and the cache holds a whole table or nothing.
C17_RequestsSerialized ==
    /\ \A r \in Requests : \A s \in Requests \ {r} :
          /\ ~(Req(r).pos \in Running /\ Req(s).pos \in Running)
          /\ (Req(r).got = "table" /\ Req(s).got = "table"
                 /\ Req(s).current_time >= Req(r).current_time)
             => Req(s).current_time - Req(r).current_time >= _cache_ttl
    /\ \A r \in Requests :
          (Req(r).pos = "rest" /\ Req(r).got \in {"table", "cache"})
             => data_cache = Req(r).table
    /\ CacheWhole

\* a request arrived while the other was in flight on the expired cache,
\* waited for it, and was then served the table the other had fetched
C17_Witness ==
    /\ Req("a").pos = "done" /\ Req("a").got = "table"
    /\ Req("b").overlap
    /\ Req("b").pos = "rest" /\ Req("b").got = "cache"
    /\ Req("b").table = Req("a").table
    /\ Req("b").current_time > Req("a").current_time
    /\ fetch_calls = 1

----------------------------------------------------------------------------
(* _execute_analysis: the filter clauses on the ungrouped path             *)

ListReturned == pc = "exec_done" /\ raised = NONE /\ ~TakesGroupedBranch(df, plan)

\* the clause names a real column of the table
ClauseResolves(columns, filter_item) ==
    _find_column(columns, Get(filter_item, "column", "")) # NONE

\* the row passes the clause, taken on its own
RowSatisfies(columns, row, filter_item) ==
    LET rawcol == Get(filter_item, "column", "")
    IN  KeepCell(row[ColumnIndex(columns, _find_column(columns, rawcol))],
                 Get(filter_item, "operator", "equals"),
                 Get(filter_item, "value", ""), rawcol)

\* C21: after a call that returned on the ungrouped path, the rows left by
\* the filter loop are the rows of the table, in table order, that pass
\* every clause whose column resolves; clauses whose column does not
\* resolve take no part, wherever they stand in the list; and the returned
\* records are the head of those rows.
C21_FiltersConjunction ==
    ListReturned =>
        LET filters == plan.filters
            PassesAll(row) ==
                \A i \in 1..Len(filters) :
                    ClauseResolves(df.columns, filters[i])
                        => RowSatisfies(df.columns, row, filters[i])
            survivors == SelectSeq(df.rows, PassesAll)
            limited   == HeadRows(survivors, plan.limit)
        IN  /\ ApplyFilters(df.columns, df.rows, filters) = survivors
            /\ result.total_matching = Len(limited)
            /\ result.data = Records(df.columns, limited, result.columns)

\* three different rows, three clauses of which the middle one does not
\* resolve: the first clause removes one row, the third another
C21_Witness ==
    /\ ListReturned
    /\ Len(plan.filters) = 3
    /\ ~ClauseResolves(df.columns, plan.filters[2])
    /\ Len(df.rows) = 3 /\ Cardinality(Range(df.rows)) = 3
    /\ plan.limit = 2
    /\ result.total_matching = 1

----------------------------------------------------------------------------
(* _execute_analysis: contains and not_contains                            *)

\* the plan is one contains / not_contains clause on a real column
OneContainsClause ==
    /\ Len(plan.filters) = 1
    /\ Get(plan.filters[1], "operator", "equals") \in {"contains", "not_contains"}
    /\ ClauseResolves(df.columns, plan.filters[1])

\* C22: after a call on the ungrouped path whose plan is one contains or
\* not_contains clause on a real column, no kept row has a missing cell in
\* that column; among the rows with a value, contains keeps exactly those
\* whose value includes the filter value, letter case aside, and
\* not_contains exactly the others; the returned list is the head of them.
C22_ContainsSkipsMissing ==
    (ListReturned /\ OneContainsClause) =>
        LET clause == plan.filters[1]
            k == ColumnIndex(df.columns, _find_column(df.columns, clause.column))
            Includes(row) == Contains(Lower(row[k]), Lower(clause.value))
            Expected(row) ==
                /\ row[k] # NONE
                /\ IF clause.operator = "contains" THEN Includes(row) ELSE ~Includes(row)
            kept == ApplyFilters(df.columns, df.rows, plan.filters)
        IN  /\ \A i \in 1..Len(kept) : kept[i][k] # NONE
            /\ kept = SelectSeq(df.rows, Expected)
            /\ result.total_matching = Len(HeadRows(SelectSeq(df.rows, Expected), plan.limit))

----------------------------------------------------------------------------
(* process_query: the order of the stages when both handlers are required   *)

\* the running call detected an intent that needs both handlers, with a
\* property id
BothRequired ==
    /\ entry = "process_query"
    /\ intent # NoIntent
    /\ intent.requires_analytics /\ intent.requires_seo
    /\ ~Missing(property_id)

FullOrder ==
    << "detect.start", "detect.end", "analytics.start", "analytics.end",
       "seo.start", "seo.end", "fuse" >>

IsPrefix(a, b) == Len(a) <= Len(b) /\ SubSeq(b, 1, Len(a)) = a

AnalyticsPcs == {"an_start", "an_parse", "an_execute", "an_summarize"}

SeoPcs == {"seo_start", "seo_parse", "seo_summarize"}

\* C23: in a call whose intent requires both handlers and whose property
\* id is present, the events so far are always an initial part of: intent
\* detection starts and ends, AnalyticsAgent.process starts and ends,
\* SEOAgent.process starts and ends, _fuse_responses runs. While the
\* analytics handler runs no result exists and SEO has not started; while
\* the SEO handler runs the analytics result is the only one; the fuser has
\* both results, analytics first; and the call ends only after the fuser.
C23_HandlersInSequence ==
    BothRequired =>
        /\ IsPrefix(trace, FullOrder) \/ trace = Append(FullOrder, "fuse.raise")
        /\ pc \in AnalyticsPcs =>
              /\ trace[Len(trace)] = "analytics.start"
              /\ responses = <<>>
        /\ pc \in SeoPcs =>
              /\ trace[Len(trace)] = "seo.start"
              /\ Len(responses) = 1 /\ responses[1].agent_name = "analytics"
        /\ "fuse" \in Range(trace) =>
              /\ Len(responses) = 2
              /\ responses[1].agent_name = "analytics" /\ responses[2].agent_name = "seo"
        /\ pc = "done" => "fuse" \in Range(trace)

C23_Witness ==
    /\ BothRequired
    /\ pc = "done"
    /\ trace = FullOrder
    /\ result.success
    /\ oracle_calls >= 5

----------------------------------------------------------------------------
(* _fuse_responses: success of the fused result                            *)

\* C24: a result _fuse_responses returned with success = true was fused
\* from handler results that all have success = true; a failed handler
\* result, its error text empty or not, is never fused into a success.
C24_FusedSuccessNeedsAllSuccess ==
    (FusedDone /\ "fuse" \in Range(trace) /\ result.success) =>
        \A i \in 1..Len(responses) : responses[i].success

----------------------------------------------------------------------------
(* process_query: analytics required, no property id                       *)

AnalyticsWithoutProperty ==
    /\ entry = "process_query"
    /\ intent # NoIntent
    /\ intent.requires_analytics
    /\ property_id \in {NONE, ""}

\* C25: once the detected intent requires analytics and no property id
\* was given, the call never enters a handler: no handler result exists,
\* no provider call and no spreadsheet fetch is made, the only oracle call
\* is the one of intent detection, and what the call returns is exactly
\* success = false, the fixed error text and the intent flags, with no
\* data and no partial_data, whether or not the intent also requires SEO.
C25_MissingPropertyStopsCall ==
    AnalyticsWithoutProperty =>
        /\ pc \in {"route_analytics", "done"}
        /\ trace = <<"detect.start", "detect.end">>
        /\ responses = <<>>
        /\ provider_calls = 0 /\ fetch_calls = 0 /\ oracle_calls = 1
        /\ chat_pc = "off"
        /\ pc = "done" =>
              /\ DOMAIN result = {"success", "error", "intent"}
              /\ result.success = FALSE
              /\ result.error = "GA4 propertyId is required for analytics queries"
              /\ result.intent = [requires_analytics |-> TRUE,
                                  requires_seo |-> intent.requires_seo]

C25_Witness ==
    /\ AnalyticsWithoutProperty
    /\ intent.requires_seo
    /\ property_id = ""
    /\ pc = "done"
    /\ result.success = FALSE
    /\ cache_timestamp = NoTime

----------------------------------------------------------------------------
(* _load_data: a fetch that fails or returns nothing                       *)

\* SEOAgent.process has returned after a load that fetched and got no table
LoadFailed ==
    /\ entry = "seo.process" /\ pc = "done"
    /\ fetch_calls = 1 /\ df = NoTable

\* this step is a load that fetched and either returned no table or stored
\* no timestamp
FetchGaveNothing ==
    /\ pc = "seo_start" /\ pc' # "seo_start"
    /\ fetch_calls' = fetch_calls + 1
    /\ df' = NoTable \/ cache_timestamp' = cache_timestamp

\* C26: a load whose fetch fails or returns no rows leaves _data_cache and
\* _cache_timestamp as they were and returns no table, even when an
\* expired table is still in the cache; SEOAgent.process then returns the
\* fixed failure without an oracle call; from then on the cache test fails
\* at every later time, so the next load fetches again; and at all times
\* _data_cache is set exactly when _cache_timestamp is set.
C26_FailedFetchLeavesCache ==
    /\ [](/\ data_cache = NoTable <=> cache_timestamp = NoTime
          /\ LoadFailed => \A t \in now..MaxClock : ~CacheFresh(t))
    /\ [][FetchGaveNothing =>
             /\ df' = NoTable
             /\ data_cache' = data_cache /\ cache_timestamp' = cache_timestamp
             /\ pc' = "done"
             /\ result' = [success |-> FALSE, data |-> NoData, message |-> "",
                           agent_name |-> "seo",
                           error |-> "Failed to load SEO data from spreadsheet"]
             /\ oracle_calls' = 0 /\ chat_pc' = "off"]_vars

\* a failed fetch on an expired cache that still holds a table with rows
C26_Witness ==
    /\ LoadFailed
    /\ data_cache # NoTable /\ data_cache.rows # <<>>
    /\ now - cache_timestamp >= _cache_ttl
    /\ result.success = FALSE
    /\ oracle_calls = 0

====
